---- MODULE Spec2Model ----
(***************************************************************************)
(* The streaming scan endpoint of the political-implication scanner:       *)
(* parallel search fetch, deduplication, batch classification with retry   *)
(* and keyword fallback, and the server-sent event stream it produces.     *)
(* The handler modelled is GET of src/unnamed/part_001 with its helpers    *)
(* analyzeBatch and createFallbackAnalysis.                                *)
(*                                                                         *)
(* Specifications:                                                         *)
(*   Spec, FairSpec  the handler from the request to the end of the run    *)
(*   BatchSpec       the handler from the resolved searches on, with       *)
(*                   longer article lists                                  *)
(*   RankSpec        the deduplicator / ranker on every short raw input    *)
(*   FallbackSpec    the keyword fallback classifier on a set of headlines *)
(*   ClientSpec      the articles and analyzed listeners of the client     *)
(*                   (src/src/app/page.tsx, scanNews)                      *)
(*   PageSpec        the page from the Scan button on: scans, their event  *)
(*                   streams, stops, broken connections, and what the      *)
(*                   complete listener does after its awaits               *)
(***************************************************************************)
EXTENDS Integers, Sequences, FiniteSets, TLC

VARIABLES
    env,             \* [news, gemini]: whether each API key is configured
    pc,              \* position of the GET handler / stream start() callback
    httpStatus,      \* 0 = no response yet, 200 = event stream, 500 = JSON error
    qStatus,         \* per search query: "idle", "pending", "ok", "failed", "hung"
    results,         \* per search query: the mapped articles it resolved to
    sortedArticles,  \* the deduplicated, sorted, truncated article list
    i,               \* loop variable of the batch loop (0-based offset)
    retryCount,      \* failed attempts of the current batch
    analyzedCount,   \* number of analyzed events sent
    failedCount,     \* number of articles resolved by the exhaustion fallback
    events,          \* events enqueued on the stream, in order
    closed,          \* controller.close() succeeded
    cancelled,       \* the consumer closed the channel (stream cancelled)
    cancelAt,        \* batch in flight or last finished when the consumer closed
    calls,           \* log of the remote classifier calls
    \* the deduplicator / ranker run on its own (lines 102-118)
    rankIn,          \* its input: per search query, the mapped articles
    rankBudget,      \* the item budget it truncates to
    rankDedup,       \* allArticles after the loop of lines 106-113
    rankOut,         \* sortedArticles: its output
    rankAgain,       \* its output when run on rankOut
    rankPc,          \* "idle", "input", "once", "twice"
    \* the keyword fallback classifier run on its own (lines 313-400)
    fbArticle,       \* the article it is called with
    fbReason,        \* the reason string it is called with
    fbOut,           \* what it returned
    fbPc,            \* "idle", "input", "done"
    \* the client's reconciler (src/src/app/page.tsx, scanNews)
    eventSource,         \* "none", or "open" once scanNews has connected
    analyzedArticlesMap, \* the Map of line 896, as its entries in insertion order
    pendingArticles,     \* React state, line 800
    clientArticles,      \* React state allArticles, line 799
    data,                \* React state, line 798: the articles grouped by region
    clientTotal,         \* React state total, line 801
    progress,            \* React state, line 810
    scanProgress,        \* React state, line 811
    received,            \* the events the listeners have handled, in order
    before,              \* the map and the two lists as they were before the last event
    \* the page around the reconciler (src/src/app/page.tsx, Home)
    loading,             \* React state, line 796
    error,               \* React state, line 797: "null" or the message
    summary,             \* React state, line 808: 0 is '', s the summary of scan s
    summaryLoading,      \* React state, line 809
    lastScan,            \* React state, line 802: 0, or the scan that completed last
    eventSourceRef,      \* eventSourceRef.current: 0 is null, s the EventSource of scan s
    readyState,          \* per scan, of its EventSource: "none" before it is created
    stream,              \* per scan: the events of the response not yet dispatched
    runs,                \* per scan: the requests its EventSource has made
    post,                \* per scan: position of the complete listener after its awaits
    scans,               \* the rows of the table scans
    supabase,            \* whether the store's URL and key are configured
    timers,              \* pending timeouts of stopScan
    scanNo,              \* the number of calls of scanNews so far
    ended,               \* per scan: how the page saw it end, "" while it has not
    saved                \* per scan: how saveScan returned, "" while it has not

serverVars ==
    <<env, pc, httpStatus, qStatus, results, sortedArticles, i, retryCount,
      analyzedCount, failedCount, events, closed, cancelled, cancelAt, calls>>

rankVars == <<rankIn, rankBudget, rankDedup, rankOut, rankAgain, rankPc>>

fallbackVars == <<fbArticle, fbReason, fbOut, fbPc>>

clientVars ==
    <<eventSource, analyzedArticlesMap, pendingArticles, clientArticles, data,
      clientTotal,
      progress, scanProgress, received, before>>

pageVars ==
    <<loading, error, summary, summaryLoading, lastScan, eventSourceRef, readyState,
      stream, runs, post, scans, supabase, timers, scanNo, ended, saved>>

\* what a step of the handler, of the ranker, of the fallback classifier, of
\* the reconciler and of the page leaves alone
outsideServer == <<rankVars, fallbackVars, clientVars, pageVars>>
outsideRank == <<serverVars, fallbackVars, clientVars, pageVars>>
outsideFallback == <<serverVars, rankVars, clientVars, pageVars>>
outsideClient == <<serverVars, rankVars, fallbackVars, pageVars>>
outsidePage == <<serverVars, rankVars, fallbackVars>>

vars == <<serverVars, rankVars, fallbackVars, clientVars, pageVars>>

----------------------------------------------------------------------------
(* Bounds of the model *)

\* longest article list one search query returns
MaxPerQuery == 2

\* longest raw article list given to the ranker when it is run on its own
MaxRawLen == 3

\* the small item budget the ranker is run with, next to the program's
RankBudget == 2

\* most articles the four queries return together in the runs of the batch loop
MaxBatchItems == 12

\* most events the client's listeners handle in one scan
MaxReceived == 3

\* most scans the user starts when the whole page is run
MaxScans == 2

\* longest article list a server run announces to the page
MaxPageArticles == 2

(* Program constants *)

batchSize == 5
maxRetries == 2
MaxArticles == 100
NumQueries == 4

SEARCH_QUERIES ==
    <<[category |-> "Economy"], [category |-> "Markets"],
      [category |-> "Policy"], [category |-> "Politics"]>>

Queries == 1..NumQueries

----------------------------------------------------------------------------
(* Upstream search results *)

RawTitle(q, k) ==
    IF q = 3 /\ k = 2 THEN "[Removed]"
    ELSE IF q = 4 /\ k = 3 THEN ""
    ELSE IF q = 2 /\ k = 1 THEN "Headline B"
    ELSE "Headline A"

\* queries 1 and 2 both return the same URL first, under different titles
RawUrl(q, k) == IF q = 2 /\ k = 1 THEN 11 ELSE 10 * q + k

RawArticle(q, k) ==
    [title |-> RawTitle(q, k), url |-> RawUrl(q, k), publishedAt |-> (q + 2 * k) % 3]

\* what the search API may answer to query q: nothing, or its feed
QueryAnswers(q) ==
    { [k \in 1..len |-> RawArticle(q, k)] : len \in {0, MaxPerQuery} }

\* lines 86-94: the per-query mapping of raw articles (idx is 0-based)
MapArticles(raw, category) ==
    [k \in 1..Len(raw) |->
        [id |-> <<category, k - 1>>, title |-> raw[k].title, url |-> raw[k].url,
         publishedAt |-> raw[k].publishedAt, category |-> category]]

----------------------------------------------------------------------------
(* Deduplicator / ranker: lines 102-118 *)

\* a variant in which one empty answer ends the concatenation, as a fetch
\* that rejects would end Promise.all
RECURSIVE FlattenResults_StopAtEmpty(_, _)
FlattenResults_StopAtEmpty(res, q) ==
    IF q > NumQueries \/ res[q] = <<>> THEN <<>>
    ELSE res[q] \o FlattenResults_StopAtEmpty(res, q + 1)

RECURSIVE FlattenResults(_, _)
\* the iteration order of the two nested for loops: query order, then item order
FlattenResults(res, q) ==
    IF q > NumQueries THEN <<>> ELSE res[q] \o FlattenResults(res, q + 1)

AcceptableTitle(title) == title # "" /\ title # "[Removed]"

\* a variant that marks a URL as seen before it looks at the title
RECURSIVE DedupFrom_SeenBeforeFilter(_, _, _)
DedupFrom_SeenBeforeFilter(list, seenUrls, allArticles) ==
    IF list = <<>> THEN allArticles
    ELSE LET article == Head(list) IN
         IF article.url \notin seenUrls /\ AcceptableTitle(article.title)
         THEN DedupFrom_SeenBeforeFilter(Tail(list), seenUrls \cup {article.url},
                                         Append(allArticles, article))
         ELSE DedupFrom_SeenBeforeFilter(Tail(list), seenUrls \cup {article.url},
                                         allArticles)

\* lines 106-113
RECURSIVE DedupFrom(_, _, _)
DedupFrom(list, seenUrls, allArticles) ==
    IF list = <<>> THEN allArticles
    ELSE LET article == Head(list) IN
         IF article.url \notin seenUrls /\ AcceptableTitle(article.title)
         THEN DedupFrom(Tail(list), seenUrls \cup {article.url},
                        Append(allArticles, article))
         ELSE DedupFrom(Tail(list), seenUrls, allArticles)

Deduplicate(res) == DedupFrom(FlattenResults(res, 1), {}, <<>>)

\* a variant that sorts oldest first
PublishedLater_Ascending(a, b) == a.publishedAt < b.publishedAt

\* line 117: the comparator orders a before b when a is published later
PublishedLater(a, b) == a.publishedAt > b.publishedAt

\* a variant of an unstable sort: entries that compare equal change places
SortedPlace_TiesReversed(list, k) ==
    1 + Cardinality({ j \in 1..Len(list) : list[j].publishedAt > list[k].publishedAt })
      + Cardinality({ j \in (k + 1)..Len(list) : list[j].publishedAt = list[k].publishedAt })

\* lines 116-117: Array.prototype.sort is stable, so the place of list[k] in
\* the result is one more than the number of entries the comparator orders
\* before it plus the number of earlier entries that compare equal to it
SortedPlace(list, k) ==
    1 + Cardinality({ j \in 1..Len(list) : PublishedLater(list[j], list[k]) })
      + Cardinality({ j \in 1..(k - 1) : list[j].publishedAt = list[k].publishedAt })

\* (l ranges over the one value of list, which is so evaluated once)
SortByDate(list) ==
    CHOOSE sorted \in
        { [place \in 1..Len(l) |-> l[CHOOSE k \in 1..Len(l) : SortedPlace(l, k) = place]]
            : l \in {list} } : TRUE

\* Array.prototype.slice(from, to) on a sequence
Slice(list, from, to) ==
    SubSeq(list, from + 1, IF to < Len(list) THEN to ELSE Len(list))

\* lines 102-118 with the literal 100 of line 118 as a parameter
RankResults(res, budget) == Slice(SortByDate(Deduplicate(res)), 0, budget)

PrepareArticles(res) == RankResults(res, MaxArticles)

----------------------------------------------------------------------------
(* Classification results *)

\* an AnalyzedArticle: the article plus where its analysis came from.
\* by = "remote": built from entry rid of the response, which carried
\* articleNum num; by = "fallback": built by createFallbackAnalysis(reason)
Analyzed(article, by, reason, rid, num) ==
    [id |-> article.id, title |-> article.title, url |-> article.url,
     publishedAt |-> article.publishedAt, category |-> article.category,
     by |-> by, reason |-> reason, rid |-> rid, num |-> num]

\* lines 313-390: in the handler's runs the result of createFallbackAnalysis
\* is kept as the article and the reason it was called with; what it computes
\* from them is FallbackAnalysis below
createFallbackAnalysis(article, reason) ==
    Analyzed(article, "fallback", reason, 0, 0)

\* line 285: parsed.analyses.find(a => a.articleNum === i + 1); 0 when none
RECURSIVE FindByNum(_, _, _)
FindByNum(analyses, num, from) ==
    IF from > Len(analyses) THEN 0
    ELSE IF analyses[from].num = num THEN from
    ELSE FindByNum(analyses, num, from + 1)

\* lines 285-286: by articleNum first, else the entry at the array position
\* (pos is the 1-based position of the article in the batch)
LookupAnalysis(analyses, pos) ==
    LET found == FindByNum(analyses, pos, 1) IN
    IF found # 0 THEN found
    ELSE IF pos <= Len(analyses) THEN pos ELSE 0

\* lines 283-309, one article; summary = FALSE is a missing or empty summary
AnalyzeItem(article, analyses, pos) ==
    LET r == LookupAnalysis(analyses, pos) IN
    IF r # 0 /\ analyses[r].summary
    THEN Analyzed(article, "remote", "", r, analyses[r].num)
    ELSE createFallbackAnalysis(article, "Analysis incomplete")

\* a variant that also rejects a response of another length than the batch
ResponseThrows_CountChecked(resp, articles) ==
    resp.kind # "analyses" \/ Len(resp.analyses) # Len(articles)

\* lines 254-280: the conditions under which analyzeBatch throws
ResponseThrows(resp, articles) == resp.kind # "analyses"

\* a variant that walks the response instead of the batch
MapAnalyses_OverResponse(articles, analyses) ==
    [pos \in 1..(IF Len(analyses) < Len(articles) THEN Len(analyses) ELSE Len(articles)) |->
        AnalyzeItem(articles[pos], analyses, pos)]

\* lines 283-309
MapAnalyses(articles, analyses) ==
    [pos \in 1..Len(articles) |-> AnalyzeItem(articles[pos], analyses, pos)]

\* line 157
FallbackBatch(batch) ==
    [pos \in 1..Len(batch) |->
        createFallbackAnalysis(batch[pos], "AI analysis unavailable")]

\* a variant that fills the gaps of a partial result with the batch fallback
ResolveBatch_FillGaps(batch, analyzedBatch) ==
    [pos \in 1..Len(batch) |->
        IF pos <= Len(analyzedBatch) /\ analyzedBatch[pos].by = "remote"
        THEN analyzedBatch[pos]
        ELSE createFallbackAnalysis(batch[pos], "AI analysis unavailable")]

\* line 156
ResolveBatch(batch, analyzedBatch) ==
    IF Len(analyzedBatch) = 0 THEN FallbackBatch(batch) ELSE analyzedBatch

\* line 147
NextRetryCount(count) == count + 1

\* a variant whose loop bound is off by one
ShouldAttempt_OffByOne(count) == count <= maxRetries

\* line 142
ShouldAttempt(count) == count < maxRetries

----------------------------------------------------------------------------
(* The keyword fallback classifier: createFallbackAnalysis, lines 313-390, and
   inferRegion, lines 392-400. A string is the sequence of its characters. *)

UpperCaseLetters ==
    <<"A", "B", "C", "D", "E", "F", "G", "H", "I", "J", "K", "L", "M", "N", "O", "P", "Q", "R", "S", "T", "U", "V", "W", "X", "Y", "Z">>

LowerCaseLetters ==
    <<"a", "b", "c", "d", "e", "f", "g", "h", "i", "j", "k", "l", "m", "n", "o", "p", "q", "r", "s", "t", "u", "v", "w", "x", "y", "z">>

\* String.prototype.toLowerCase on the characters the inputs use
toLowerCase(str) ==
    [k \in 1..Len(str) |->
        IF \E c \in 1..Len(UpperCaseLetters) : UpperCaseLetters[c] = str[k]
        THEN LowerCaseLetters[CHOOSE c \in 1..Len(UpperCaseLetters) :
                                UpperCaseLetters[c] = str[k]]
        ELSE str[k]]

\* String.prototype.includes: k occurs in text as a contiguous substring
includes(text, k) ==
    \E at \in 1..(Len(text) - Len(k) + 1) : SubSeq(text, at, at + Len(k) - 1) = k

\* Array.prototype.some(k => text.includes(k))
SomeIncluded(keywords, text) ==
    \E n \in 1..Len(keywords) : includes(text, keywords[n])

\* lines 314-316: `${title} ${description}`, both lowercased
FallbackText(article) ==
    toLowerCase(article.title) \o <<" ">> \o toLowerCase(article.description)

\* line 319
bullishKeywords ==
    <<<<"s", "u", "r", "g", "e">>,
      <<"s", "o", "a", "r">>,
      <<"r", "a", "l", "l", "y">>,
      <<"g", "a", "i", "n">>,
      <<"r", "i", "s", "e">>,
      <<"j", "u", "m", "p">>,
      <<"b", "o", "o", "s", "t">>,
      <<"g", "r", "o", "w", "t", "h">>,
      <<"p", "r", "o", "f", "i", "t">>,
      <<"b", "e", "a", "t">>,
      <<"r", "e", "c", "o", "r", "d", " ", "h", "i", "g", "h">>,
      <<"b", "u", "l", "l", "i", "s", "h">>,
      <<"o", "p", "t", "i", "m", "i", "s">>>>

\* line 320
bearishKeywords ==
    <<<<"f", "a", "l", "l">>,
      <<"d", "r", "o", "p">>,
      <<"c", "r", "a", "s", "h">>,
      <<"p", "l", "u", "n", "g", "e">>,
      <<"d", "e", "c", "l", "i", "n", "e">>,
      <<"l", "o", "s", "s">>,
      <<"c", "u", "t">>,
      <<"r", "e", "c", "e", "s", "s", "i", "o", "n">>,
      <<"c", "r", "i", "s", "i", "s">>,
      <<"f", "e", "a", "r">>,
      <<"c", "o", "n", "c", "e", "r", "n">>,
      <<"w", "a", "r", "n">>,
      <<"b", "e", "a", "r", "i", "s", "h">>,
      <<"p", "e", "s", "s", "i", "m", "i", "s">>>>

\* a variant that tests the bullish cues first and never answers Mixed
InferSentiment_BullishFirst(text) ==
    IF SomeIncluded(bullishKeywords, text) THEN "Bullish"
    ELSE IF SomeIncluded(bearishKeywords, text) THEN "Bearish"
    ELSE "Neutral"

\* lines 322-328
InferSentiment(text) ==
    LET hasBullish == SomeIncluded(bullishKeywords, text)
        hasBearish == SomeIncluded(bearishKeywords, text)
    IN  IF hasBullish /\ hasBearish THEN "Mixed"
        ELSE IF hasBullish THEN "Bullish"
        ELSE IF hasBearish THEN "Bearish"
        ELSE "Neutral"

\* lines 332-341, in the order of the object's entries
sectorKeywords ==
    <<[sector |-> "Technology",
       keywords |->
         <<<<"t", "e", "c", "h">>,
           <<"a", "i">>,
           <<"s", "o", "f", "t", "w", "a", "r", "e">>,
           <<"c", "h", "i", "p">>,
           <<"s", "e", "m", "i", "c", "o", "n", "d", "u", "c", "t", "o", "r">>,
           <<"a", "p", "p", "l", "e">>,
           <<"g", "o", "o", "g", "l", "e">>,
           <<"m", "i", "c", "r", "o", "s", "o", "f", "t">>,
           <<"n", "v", "i", "d", "i", "a">>,
           <<"m", "e", "t", "a">>>>],
      [sector |-> "Financials",
       keywords |->
         <<<<"b", "a", "n", "k">>,
           <<"f", "e", "d">>,
           <<"i", "n", "t", "e", "r", "e", "s", "t", " ", "r", "a", "t", "e">>,
           <<"l", "o", "a", "n">>,
           <<"c", "r", "e", "d", "i", "t">>,
           <<"j", "p", "m", "o", "r", "g", "a", "n">>,
           <<"g", "o", "l", "d", "m", "a", "n">>,
           <<"f", "i", "n", "a", "n", "c", "e">>>>],
      [sector |-> "Energy",
       keywords |->
         <<<<"o", "i", "l">>,
           <<"g", "a", "s">>,
           <<"e", "n", "e", "r", "g", "y">>,
           <<"o", "p", "e", "c">>,
           <<"c", "r", "u", "d", "e">>,
           <<"e", "x", "x", "o", "n">>,
           <<"c", "h", "e", "v", "r", "o", "n">>,
           <<"r", "e", "n", "e", "w", "a", "b", "l", "e">>,
           <<"s", "o", "l", "a", "r">>>>],
      [sector |-> "Healthcare",
       keywords |->
         <<<<"h", "e", "a", "l", "t", "h">>,
           <<"d", "r", "u", "g">>,
           <<"p", "h", "a", "r", "m", "a">>,
           <<"f", "d", "a">>,
           <<"m", "e", "d", "i", "c", "a", "l">>,
           <<"v", "a", "c", "c", "i", "n", "e">>,
           <<"p", "f", "i", "z", "e", "r">>,
           <<"h", "o", "s", "p", "i", "t", "a", "l">>>>],
      [sector |-> "Defense",
       keywords |->
         <<<<"d", "e", "f", "e", "n", "s", "e">>,
           <<"m", "i", "l", "i", "t", "a", "r", "y">>,
           <<"p", "e", "n", "t", "a", "g", "o", "n">>,
           <<"w", "e", "a", "p", "o", "n">>,
           <<"n", "a", "t", "o">>,
           <<"l", "o", "c", "k", "h", "e", "e", "d">>,
           <<"r", "a", "y", "t", "h", "e", "o", "n">>,
           <<"w", "a", "r">>>>],
      [sector |-> "Consumer",
       keywords |->
         <<<<"r", "e", "t", "a", "i", "l">>,
           <<"c", "o", "n", "s", "u", "m", "e", "r">>,
           <<"w", "a", "l", "m", "a", "r", "t">>,
           <<"a", "m", "a", "z", "o", "n">>,
           <<"s", "p", "e", "n", "d", "i", "n", "g">>,
           <<"s", "a", "l", "e", "s">>>>],
      [sector |-> "Industrials",
       keywords |->
         <<<<"m", "a", "n", "u", "f", "a", "c", "t", "u", "r", "i", "n", "g">>,
           <<"i", "n", "d", "u", "s", "t", "r", "i", "a", "l">>,
           <<"f", "a", "c", "t", "o", "r", "y">>,
           <<"b", "o", "e", "i", "n", "g">>,
           <<"c", "a", "t", "e", "r", "p", "i", "l", "l", "a", "r">>>>],
      [sector |-> "Commodities",
       keywords |->
         <<<<"g", "o", "l", "d">>,
           <<"s", "i", "l", "v", "e", "r">>,
           <<"c", "o", "p", "p", "e", "r">>,
           <<"m", "e", "t", "a", "l">>,
           <<"c", "o", "m", "m", "o", "d", "i", "t", "y">>,
           <<"m", "i", "n", "i", "n", "g">>>>]>>

\* a variant that passes every sentiment through as the impact
SectorImpactOf_Mirror(sentiment) == sentiment

\* line 347
SectorImpactOf(sentiment) ==
    IF sentiment = "Neutral" THEN "Uncertain"
    ELSE IF sentiment = "Mixed" THEN "Uncertain"
    ELSE sentiment

\* lines 345-352 and 365-372: a SectorImpact of the fallback
SectorImpact(sector, impact, reason) ==
    [sector |-> sector, impact |-> impact, reasoning |-> reason,
     tickers |-> <<>>, timeframe |-> "Short-term", confidence |-> "Low"]

\* lines 343-354: one SectorImpact per entry whose keywords match, from entry n on
RECURSIVE MatchedSectors(_, _, _, _)
MatchedSectors(text, sentiment, reason, n) ==
    IF n > Len(sectorKeywords) THEN <<>>
    ELSE (IF SomeIncluded(sectorKeywords[n].keywords, text)
          THEN <<SectorImpact(sectorKeywords[n].sector, SectorImpactOf(sentiment), reason)>>
          ELSE <<>>)
         \o MatchedSectors(text, sentiment, reason, n + 1)

\* lines 358-364: categoryMap[article.category] || 'Financials'
DefaultSector(category) ==
    CASE category = "Economy" -> "Financials"
      [] category = "Markets" -> "Financials"
      [] category = "Policy" -> "Industrials"
      [] category = "Politics" -> "Defense"
      [] OTHER -> "Financials"

\* lines 330-373
InferSectors(text, sentiment, reason, category) ==
    LET sectors == MatchedSectors(text, sentiment, reason, 1) IN
    IF Len(sectors) = 0
    THEN <<SectorImpact(DefaultSector(category), "Uncertain", reason)>>
    ELSE sectors

\* lines 392-400
inferRegion(category) ==
    CASE category = "Economy" -> "Americas"
      [] category = "Markets" -> "Americas"
      [] category = "Policy" -> "Americas"
      [] category = "Politics" -> "Europe"
      [] OTHER -> "Americas"

\* lines 375-389: what createFallbackAnalysis returns, the article's own
\* fields apart
FallbackAnalysis(article, reason) ==
    LET text == FallbackText(article)
        sentiment == InferSentiment(text)
    IN  [article |-> article,
         region |-> inferRegion(article.category),
         analysis |-> [summary |-> reason,
                       sectors |-> InferSectors(text, sentiment, reason, article.category),
                       overallSentiment |-> sentiment,
                       keyInsight |-> ""],
         implications |-> [gold |-> "Neutral", silver |-> "Neutral",
                           rareMinerals |-> "Neutral",
                           stockMarkets |-> IF sentiment = "Neutral" THEN "Neutral"
                                            ELSE sentiment]]

----------------------------------------------------------------------------
(* What the remote classifier may answer for a batch of n articles *)

KeyNum(key, k) ==
    CASE key = "articleNum" -> k
      [] key = "shifted" -> k + 1
      [] OTHER -> 0

BaseAnalyses(n, key) == [k \in 1..n |-> [num |-> KeyNum(key, k), summary |-> TRUE]]

Reverse(s) == [k \in 1..Len(s) |-> s[Len(s) + 1 - k]]

\* an answer in batch order, one in reverse order, one a result short, one a
\* result long, one whose first result has no summary; one numbered from 2;
\* one without articleNum, and one without articleNum and a result short
AnalysesShapes(n) ==
    LET keyed == BaseAnalyses(n, "articleNum")
        unkeyed == BaseAnalyses(n, "none")
    IN  { keyed, Reverse(keyed), SubSeq(keyed, 1, n - 1),
          Append(keyed, [num |-> n + 1, summary |-> TRUE]),
          [keyed EXCEPT ![1].summary = FALSE],
          BaseAnalyses(n, "shifted"),
          unkeyed, Tail(unkeyed) }

\* "transport": fetch rejects; "http": !response.ok; "nojson": no {...} in the
\* text; "badjson": JSON.parse throws; "structure": analyses is no array
FailureKinds == {"transport", "http", "nojson", "badjson", "structure"}

RemoteAnswers(n) ==
    { [kind |-> k, analyses |-> <<>>] : k \in FailureKinds }
    \cup { [kind |-> "analyses", analyses |-> a] : a \in AnalysesShapes(n) }

----------------------------------------------------------------------------
(* Events: lines 68-70 and the five send sites *)

NoArticle ==
    [id |-> <<"", 0>>, title |-> "", url |-> 0, publishedAt |-> 0, category |-> "",
     by |-> "", reason |-> "", rid |-> 0, num |-> 0]

Ev(type, phase, articles, article, current, total) ==
    [type |-> type, phase |-> phase, articles |-> articles, article |-> article,
     current |-> current, total |-> total]

StatusFetching == Ev("status", "fetching", <<>>, NoArticle, 0, 0)
ArticlesEvent(sorted) == Ev("articles", "pending", sorted, NoArticle, 0, Len(sorted))
StatusAnalyzing(sorted) == Ev("status", "analyzing", <<>>, NoArticle, 0, Len(sorted))
CompleteEvent(sorted) == Ev("complete", "", <<>>, NoArticle, 0, Len(sorted))
ErrorEvent == Ev("error", "", <<>>, NoArticle, 0, 0)

\* a variant that sends the counter before incrementing it
ProgressCurrent_PostIncrement(count, k) == count + k - 1

\* lines 163-166: the value of analyzedCount carried by the k-th event of a batch
ProgressCurrent(count, k) == count + k

\* lines 162-168
AnalyzedEvents(analyzedBatch, count, total) ==
    [k \in 1..Len(analyzedBatch) |->
        Ev("analyzed", "", <<>>, analyzedBatch[k], ProgressCurrent(count, k), total)]

\* a variant that skips the articles event
AnnounceEvents_NoArticles(sorted) == <<StatusAnalyzing(sorted)>>

\* lines 121-128
AnnounceEvents(sorted) == <<ArticlesEvent(sorted), StatusAnalyzing(sorted)>>

\* a variant that ends the run without the complete event
CompleteEvents_Missing(sorted) == <<>>

\* lines 181-185
CompleteEvents(sorted) == <<CompleteEvent(sorted)>>

----------------------------------------------------------------------------
(* The handler *)

NoResults == [q \in Queries |-> <<>>]

\* the ranker when it is not run on its own
RankIdle ==
    /\ rankIn = NoResults
    /\ rankBudget = 0
    /\ rankDedup = <<>>
    /\ rankOut = <<>>
    /\ rankAgain = <<>>
    /\ rankPc = "idle"

\* the fallback classifier when it is not run on its own
FallbackIdle ==
    /\ fbArticle = <<>>
    /\ fbReason = ""
    /\ fbOut = <<>>
    /\ fbPc = "idle"

\* page.tsx lines 886-896: what scanNews resets before it connects
ClientReset ==
    /\ analyzedArticlesMap = <<>>
    /\ pendingArticles = <<>>
    /\ clientArticles = <<>>
    /\ data = "null"
    /\ clientTotal = 0
    /\ progress = <<"Connecting...">>
    /\ scanProgress = [current |-> 0, total |-> 0]
    /\ received = <<>>
    /\ before = <<>>

\* the client when it is not run
ClientIdle ==
    /\ eventSource = "none"
    /\ ClientReset

\* page.tsx lines 796-814: the page before the first scan, the reconciler's
\* part apart
PageStart ==
    /\ loading = FALSE
    /\ error = "null"
    /\ summary = 0
    /\ summaryLoading = FALSE
    /\ lastScan = 0
    /\ eventSourceRef = 0
    /\ readyState = [s \in 1..MaxScans |-> "none"]
    /\ stream = [s \in 1..MaxScans |-> <<>>]
    /\ runs = [s \in 1..MaxScans |-> 0]
    /\ post = [s \in 1..MaxScans |-> [at |-> "idle", total |-> 0]]
    /\ scans = <<>>
    /\ timers = 0
    /\ scanNo = 0
    /\ ended = [s \in 1..MaxScans |-> ""]
    /\ saved = [s \in 1..MaxScans |-> ""]

\* the page when it is not run
PageIdle ==
    /\ supabase = FALSE
    /\ PageStart

\* the handler before the request arrives
NotStarted ==
    /\ pc = "request"
    /\ httpStatus = 0
    /\ qStatus = [q \in Queries |-> "idle"]
    /\ results = NoResults
    /\ sortedArticles = <<>>
    /\ i = 0
    /\ retryCount = 0
    /\ analyzedCount = 0
    /\ failedCount = 0
    /\ events = <<>>
    /\ closed = FALSE
    /\ cancelled = FALSE
    /\ cancelAt = -1
    /\ calls = <<>>

Init ==
    /\ env \in [news : BOOLEAN, gemini : BOOLEAN]
    /\ NotStarted
    /\ RankIdle
    /\ FallbackIdle
    /\ ClientIdle
    /\ PageIdle

\* 1-based number of the batch that starts at offset
BatchNo(offset) == (offset \div batchSize) + 1

\* a variant whose batches overlap by one article
Batch_Overlap(sorted, offset) == Slice(sorted, offset, offset + batchSize + 1)

\* line 135
Batch(sorted, offset) == Slice(sorted, offset, offset + batchSize)

\* line 144: analyzeBatch is entered and its fetch is issued
StartCall(offset) ==
    Append(calls, [batch |-> BatchNo(offset), outcome |-> "pending",
                   afterCancel |-> cancelled, parsed |-> FALSE, analyses |-> <<>>])

\* the log entry of the call that settled: outcome "ok" when analyzeBatch
\* returned, "fail" when it threw, "hung" when its fetch never settles;
\* parsed tells whether the response held an analyses array, kept in analyses
EndCall(outcome, resp) ==
    [calls EXCEPT ![Len(calls)].outcome = outcome,
                  ![Len(calls)].parsed = (resp.kind = "analyses"),
                  ![Len(calls)].analyses = resp.analyses]

NoResponse == [kind |-> "none", analyses |-> <<>>]

\* lines 53-74: the key check, then start() up to the first await
GET ==
    /\ pc = "request"
    /\ IF ~env.news \/ ~env.gemini
       THEN /\ httpStatus' = 500
            /\ pc' = "rejected"
            /\ UNCHANGED <<qStatus, events>>
       ELSE /\ httpStatus' = 200
            /\ events' = <<StatusFetching>>
            /\ qStatus' = [q \in Queries |-> "pending"]
            /\ pc' = "fetching"
    /\ UNCHANGED outsideServer
    /\ UNCHANGED <<env, results, sortedArticles, i, retryCount, analyzedCount,
                   failedCount, closed, cancelled, cancelAt, calls>>

\* lines 76-98: one search query settles, with articles or (not ok, or a
\* thrown fault) with the empty list
FetchReturn(q) ==
    /\ pc = "fetching"
    /\ qStatus[q] = "pending"
    /\ \/ \E raw \in QueryAnswers(q) :
            /\ results' = [results EXCEPT ![q] = MapArticles(raw, SEARCH_QUERIES[q].category)]
            /\ qStatus' = [qStatus EXCEPT ![q] = "ok"]
       \/ /\ results' = [results EXCEPT ![q] = <<>>]
          /\ qStatus' = [qStatus EXCEPT ![q] = "failed"]
    /\ UNCHANGED outsideServer
    /\ UNCHANGED <<env, pc, httpStatus, sortedArticles, i, retryCount, analyzedCount,
                   failedCount, events, closed, cancelled, cancelAt, calls>>

\* lines 78-81: the fetch of one search query never settles (it has no timeout)
FetchHang(q) ==
    /\ pc = "fetching"
    /\ qStatus[q] = "pending"
    /\ qStatus' = [qStatus EXCEPT ![q] = "hung"]
    /\ UNCHANGED outsideServer
    /\ UNCHANGED <<env, pc, httpStatus, results, sortedArticles, i, retryCount,
                   analyzedCount, failedCount, events, closed, cancelled, cancelAt, calls>>

\* lines 100-144: Promise.all resolves; deduplicate, sort, announce, and enter
\* the batch loop up to the first classifier call. (Lines 187-191: once the
\* consumer has cancelled the stream, enqueue throws, and so do the catch
\* block's send and the finally block's close.)
AfterFetch ==
    /\ pc = "fetching"
    /\ \A q \in Queries : qStatus[q] \in {"ok", "failed"}
    /\ \E sorted \in {PrepareArticles(results)} :
       /\ sortedArticles' = sorted
       /\ IF cancelled
          THEN /\ pc' = "aborted"
               /\ UNCHANGED <<events, closed, calls>>
          ELSE IF Len(sorted) = 0
          THEN /\ events' = events \o AnnounceEvents(sorted)
                                   \o CompleteEvents(sorted)
               /\ closed' = TRUE
               /\ pc' = "done"
               /\ UNCHANGED calls
          ELSE /\ events' = events \o AnnounceEvents(sorted)
               /\ calls' = StartCall(0)
               /\ pc' = "classify"
               /\ UNCHANGED closed
    /\ UNCHANGED outsideServer
    /\ UNCHANGED <<env, httpStatus, qStatus, results, i, retryCount, analyzedCount,
                   failedCount, cancelled, cancelAt>>

\* lines 155-185: resolve the batch, send its events, and either wait before
\* the next batch or complete
Emit(batch, analyzedBatch) ==
    LET resolved == ResolveBatch(batch, analyzedBatch)
        total == Len(sortedArticles)
    IN  /\ failedCount' = IF Len(analyzedBatch) = 0
                          THEN failedCount + Len(batch) ELSE failedCount
        /\ IF cancelled
           THEN /\ analyzedCount' = analyzedCount + 1
                /\ pc' = "aborted"
                /\ UNCHANGED <<events, closed>>
           ELSE /\ analyzedCount' = analyzedCount + Len(resolved)
                /\ IF i + batchSize < total
                   THEN /\ events' = events \o AnalyzedEvents(resolved, analyzedCount, total)
                        /\ pc' = "batchDelay"
                        /\ UNCHANGED closed
                   ELSE /\ events' = events \o AnalyzedEvents(resolved, analyzedCount, total)
                                            \o CompleteEvents(sortedArticles)
                        /\ closed' = TRUE
                        /\ pc' = "done"

\* lines 142-153 and 242-310: the classifier call in flight settles
ClassifyReturn ==
    /\ pc = "classify"
    /\ calls[Len(calls)].outcome = "pending"
    /\ LET batch == Batch(sortedArticles, i) IN
       \E resp \in RemoteAnswers(Len(batch)) :
          IF ResponseThrows(resp, batch)
          THEN /\ calls' = EndCall("fail", resp)
               /\ retryCount' = NextRetryCount(retryCount)
               /\ IF ShouldAttempt(NextRetryCount(retryCount))
                  THEN /\ pc' = "retryWait"
                       /\ UNCHANGED <<analyzedCount, failedCount, events, closed>>
                  ELSE Emit(batch, <<>>)
          ELSE /\ calls' = EndCall("ok", resp)
               /\ UNCHANGED retryCount
               /\ Emit(batch, MapAnalyses(batch, resp.analyses))
    /\ UNCHANGED outsideServer
    /\ UNCHANGED <<env, httpStatus, qStatus, results, sortedArticles, i,
                   cancelled, cancelAt>>

\* lines 242-252: the classifier fetch never settles (it has no timeout)
ClassifyHang ==
    /\ pc = "classify"
    /\ calls[Len(calls)].outcome = "pending"
    /\ calls' = EndCall("hung", NoResponse)
    /\ UNCHANGED outsideServer
    /\ UNCHANGED <<env, pc, httpStatus, qStatus, results, sortedArticles, i, retryCount,
                   analyzedCount, failedCount, events, closed, cancelled, cancelAt>>

\* lines 149-151, then 142-144: the 500 ms wait ends and the batch is retried
RetryTimer ==
    /\ pc = "retryWait"
    /\ calls' = StartCall(i)
    /\ pc' = "classify"
    /\ UNCHANGED outsideServer
    /\ UNCHANGED <<env, httpStatus, qStatus, results, sortedArticles, i, retryCount,
                   analyzedCount, failedCount, events, closed, cancelled, cancelAt>>

\* lines 171-173, then 134-144: the 150 ms wait ends and the next batch starts
BatchDelay ==
    /\ pc = "batchDelay"
    /\ i' = i + batchSize
    /\ retryCount' = 0
    /\ calls' = StartCall(i + batchSize)
    /\ pc' = "classify"
    /\ UNCHANGED outsideServer
    /\ UNCHANGED <<env, httpStatus, qStatus, results, sortedArticles, analyzedCount,
                   failedCount, events, closed, cancelled, cancelAt>>

\* the consumer closes the channel while the run is at an await
\* (src/src/app/page.tsx 870-874): the stream is cancelled, and from then on
\* controller.enqueue and controller.close throw. The handler registers no
\* cancel() callback and never reads request.signal, so it learns of the
\* cancellation only at its next send.
ClientCancel ==
    /\ pc \in {"fetching", "classify", "retryWait", "batchDelay"}
    /\ ~cancelled
    /\ cancelled' = TRUE
    /\ cancelAt' = IF pc = "fetching" THEN 0 ELSE BatchNo(i)
    /\ UNCHANGED outsideServer
    /\ UNCHANGED <<env, pc, httpStatus, qStatus, results, sortedArticles, i, retryCount,
                   analyzedCount, failedCount, events, closed, calls>>

ServerStep ==
    \/ GET
    \/ \E q \in Queries : FetchReturn(q)
    \/ AfterFetch
    \/ ClassifyReturn
    \/ RetryTimer
    \/ BatchDelay

Next ==
    \/ ServerStep
    \/ \E q \in Queries : FetchHang(q)
    \/ ClassifyHang
    \/ ClientCancel

Spec == Init /\ [][Next]_vars

\* every step of the run that is enabled is eventually taken: the event loop
\* runs settled promises and expired timers; nothing obliges a remote call to
\* settle rather than hang, nor the consumer to cancel
FairSpec == Spec /\ WF_vars(ServerStep)

----------------------------------------------------------------------------
(* The batch loop over longer article lists: the run from the point where all
   four searches have resolved, with up to MaxBatchItems articles found *)

\* n raw articles with distinct URLs, dealt to the queries in turn
BigFeed(n, q) ==
    [k \in 1..((n + NumQueries - q) \div NumQueries) |->
        [title |-> "Headline A", url |-> 100 + NumQueries * (k - 1) + q,
         publishedAt |-> (q + k) % 3]]

BatchInit ==
    /\ env = [news |-> TRUE, gemini |-> TRUE]
    /\ pc = "fetching"
    /\ httpStatus = 200
    /\ qStatus = [q \in Queries |-> "ok"]
    /\ \E n \in 0..MaxBatchItems :
          results = [q \in Queries |-> MapArticles(BigFeed(n, q), SEARCH_QUERIES[q].category)]
    /\ sortedArticles = <<>>
    /\ i = 0
    /\ retryCount = 0
    /\ analyzedCount = 0
    /\ failedCount = 0
    /\ events = <<StatusFetching>>
    /\ closed = FALSE
    /\ cancelled = FALSE
    /\ cancelAt = -1
    /\ calls = <<>>
    /\ RankIdle
    /\ FallbackIdle
    /\ ClientIdle
    /\ PageIdle

BatchNext ==
    \/ AfterFetch
    \/ ClassifyReturn
    \/ RetryTimer
    \/ BatchDelay

BatchSpec == BatchInit /\ [][BatchNext]_vars

----------------------------------------------------------------------------
(* The deduplicator / ranker run on its own, over every short raw input *)

\* the handler at rest, while another component is run on its own
ServerIdle ==
    /\ env = [news |-> TRUE, gemini |-> TRUE]
    /\ NotStarted

\* raw articles: three URLs, two titles and two timestamps for the articles with
\* an acceptable title, and the two titles the deduplicator rejects
RankRaw ==
    { [title |-> t, url |-> u, publishedAt |-> d] :
        t \in {"Headline A", "Headline B"}, u \in 1..3, d \in 0..1 }
    \cup { [title |-> t, url |-> u, publishedAt |-> 0] : t \in {"", "[Removed]"}, u \in 1..3 }

RawLists == UNION { [1..n -> RankRaw] : n \in 0..MaxRawLen }

\* the raw list as answers of the queries: two to each query, in query order
QueryPart(l, q) == SubSeq(l, 2 * q - 1, IF 2 * q < Len(l) THEN 2 * q ELSE Len(l))

AsResults(l) ==
    [q \in Queries |->
        IF 2 * q - 1 > Len(l) THEN <<>>
        ELSE MapArticles(QueryPart(l, q), SEARCH_QUERIES[q].category)]

\* a ranked list given back to lines 102-118 as the answer of the first query
AsOneResult(list) == [q \in Queries |-> IF q = 1 THEN list ELSE <<>>]

RankInit ==
    /\ ServerIdle
    /\ FallbackIdle
    /\ ClientIdle
    /\ PageIdle
    /\ rankPc = "input"
    /\ \E l \in RawLists : rankIn = AsResults(l)
    /\ rankBudget \in (1..RankBudget) \cup {MaxArticles}
    /\ rankDedup = <<>>
    /\ rankOut = <<>>
    /\ rankAgain = <<>>

\* lines 102-118 on rankIn
RankFirst ==
    /\ rankPc = "input"
    /\ rankDedup' = Deduplicate(rankIn)
    /\ rankOut' = RankResults(rankIn, rankBudget)
    /\ rankPc' = "once"
    /\ UNCHANGED <<rankIn, rankBudget, rankAgain>>
    /\ UNCHANGED outsideRank

\* lines 102-118 on their own output
RankSecond ==
    /\ rankPc = "once"
    /\ rankAgain' = RankResults(AsOneResult(rankOut), rankBudget)
    /\ rankPc' = "twice"
    /\ UNCHANGED <<rankIn, rankBudget, rankDedup, rankOut>>
    /\ UNCHANGED outsideRank

RankNext == RankFirst \/ RankSecond

RankSpec == RankInit /\ [][RankNext]_vars

----------------------------------------------------------------------------
(* The fallback classifier run on its own, over a set of headlines *)

FallbackTitles ==
    {<<"F", "e", "d", " ", "r", "a", "i", "s", "e", "s", " ", "r", "a", "t", "e", "s">>,
     <<"S", "t", "o", "c", "k", "s", " ", "S", "U", "R", "G", "E">>,
     <<"M", "a", "r", "k", "e", "t", "s", " ", "f", "a", "l", "l">>,
     <<"R", "a", "l", "l", "y", " ", "f", "a", "d", "e", "s", " ", "o", "n", " ", "r", "e", "c", "e", "s", "s", "i", "o", "n", " ", "f", "e", "a", "r">>,
     <<"C", "o", "u", "n", "c", "i", "l", " ", "m", "e", "e", "t", "s">>,
     <<"R", "e", "c", "o", "r", "d">>}

FallbackDescriptions ==
    {<<>>,
     <<"r", "a", "t", "e", " ", "h", "i", "k", "e", " ", "s", "u", "r", "g", "e", "s", " ", "b", "a", "n", "k", " ", "s", "t", "o", "c", "k", "s">>,
     <<"O", "i", "l", " ", "p", "r", "i", "c", "e", "s", " ", "d", "r", "o", "p">>,
     <<"h", "i", "g", "h", " ", "h", "o", "p", "e", "s">>,
     <<"T", "a", "l", "k", "s", " ", "c", "o", "n", "t", "i", "n", "u", "e">>}

\* the four categories of SEARCH_QUERIES and one that no map knows
FallbackCategories == { SEARCH_QUERIES[q].category : q \in Queries } \cup {"Other"}

\* the two reasons the handler passes: lines 157 and 307
FallbackReasons == {"AI analysis unavailable", "Analysis incomplete"}

FallbackInit ==
    /\ ServerIdle
    /\ RankIdle
    /\ ClientIdle
    /\ PageIdle
    /\ fbPc = "input"
    /\ fbArticle \in [title : FallbackTitles, description : FallbackDescriptions,
                       category : FallbackCategories]
    /\ fbReason \in FallbackReasons
    /\ fbOut = <<>>

\* createFallbackAnalysis(fbArticle, fbReason) returns
FallbackCall ==
    /\ fbPc = "input"
    /\ fbOut' = FallbackAnalysis(fbArticle, fbReason)
    /\ fbPc' = "done"
    /\ UNCHANGED <<fbArticle, fbReason>>
    /\ UNCHANGED outsideFallback

FallbackNext == FallbackCall

FallbackSpec == FallbackInit /\ [][FallbackNext]_vars

----------------------------------------------------------------------------
(* The client's reconciler: the articles and analyzed listeners of scanNews,
   src/src/app/page.tsx lines 909-952, fed with events of the wire contract *)

\* the articles on the wire: two with an id, one with none; region "" is an
\* article that carries no region
WireItems ==
    { [id |-> "i1", url |-> "u1", region |-> ""],
      [id |-> "i2", url |-> "u2", region |-> ""],
      [id |-> "", url |-> "u3", region |-> ""] }

\* page.tsx lines 928 and 936: article.id || article.url
KeyOf(article) == IF article.id # "" THEN article.id ELSE article.url

\* the lists an articles event may carry: up to two articles, no key twice
\* (the server announces no URL twice, and gives every article its own id)
AnnouncedLists ==
    {<<>>} \cup { <<a>> : a \in WireItems }
           \cup { l \in { <<a, b>> : a \in WireItems, b \in WireItems } : l[1] # l[2] }

ArticlesEvents ==
    { [type |-> "articles", articles |-> l, total |-> Len(l)] : l \in AnnouncedLists }

\* the region strings a result of the remote classifier may carry: none, one
\* of the five the prompt of part_001 line 228 asks for, one it does not
RemoteRegions == {"", "Europe", "Global"}

\* part_001 line 291: analysis.region || inferRegion(article.category); the
\* fallback result has the region of an absent one (line 376)
ResultRegion(region, category) ==
    IF region # "" THEN region ELSE inferRegion(category)

\* the regions of the results the server sends
WireRegions ==
    { ResultRegion(r, SEARCH_QUERIES[q].category) : r \in RemoteRegions, q \in Queries }

\* an analyzed event: one article with the region its analysis gave it
AnalyzedEventsOnWire ==
    { [type |-> "analyzed",
       article |-> [id |-> a.id, url |-> a.url, region |-> r],
       progress |-> [current |-> c, total |-> 2]] :
        a \in WireItems, r \in WireRegions, c \in 1..2 }

\* page.tsx line 52, without the filter value 'All'
Regions == {"Americas", "Europe", "Asia", "Middle East", "Africa"}

\* a variant that adds an entry at every call, as Array.prototype.push would
MapSet_Append(map, key, value) == Append(map, [key |-> key, value |-> value])

\* Map.prototype.set: a present key keeps its place and takes the new value
MapSet(map, key, value) ==
    IF \E k \in 1..Len(map) : map[k].key = key
    THEN [k \in 1..Len(map) |->
            IF map[k].key = key THEN [key |-> key, value |-> value] ELSE map[k]]
    ELSE Append(map, [key |-> key, value |-> value])

\* Array.from(map.values())
MapValues(map) == [k \in 1..Len(map) |-> map[k].value]

\* Array.prototype.filter(a => a.region === region)
RECURSIVE FilterRegion(_, _)
FilterRegion(articles, region) ==
    IF articles = <<>> THEN <<>>
    ELSE (IF Head(articles).region = region THEN <<Head(articles)>> ELSE <<>>)
         \o FilterRegion(Tail(articles), region)

\* page.tsx lines 912-917: an announced article as a pending entry
AsPending(a) ==
    [id |-> a.id, url |-> a.url,
     region |-> IF a.region = "" THEN "Americas" ELSE a.region,
     pending |-> TRUE]

\* page.tsx lines 928 and 936: { ...article, pending: false }
AsAnalyzed(article) ==
    [id |-> article.id, url |-> article.url, region |-> article.region,
     pending |-> FALSE]

\* page.tsx lines 935-937
MarkAnalyzed(prev, article) ==
    [k \in 1..Len(prev) |->
        IF KeyOf(prev[k]) = KeyOf(article) THEN AsAnalyzed(article) ELSE prev[k]]

Snapshot == <<analyzedArticlesMap, clientArticles, pendingArticles>>

\* scanNews has run: state reset, connection open, no event handled yet
ClientInit ==
    /\ ServerIdle
    /\ RankIdle
    /\ FallbackIdle
    /\ PageIdle
    /\ eventSource = "open"
    /\ ClientReset

\* page.tsx lines 909-921: the articles listener on the event e
ArticlesListener(e) ==
    /\ pendingArticles' = [k \in 1..Len(e.articles) |-> AsPending(e.articles[k])]
    /\ clientTotal' = e.total
    /\ scanProgress' = [scanProgress EXCEPT !.total = e.total]
    /\ received' = Append(received, e)
    /\ before' = Snapshot
    /\ UNCHANGED <<eventSource, analyzedArticlesMap, clientArticles, data, progress>>

\* a variant that counts down the articles left instead of keeping the total
AnalyzedProgress_Remaining(e) ==
    [current |-> e.progress.current, total |-> e.progress.total - e.progress.current]

\* page.tsx line 931: setScanProgress(data.progress)
AnalyzedProgress(e) == e.progress

\* page.tsx lines 923-952: the analyzed listener on the event e
AnalyzedListener(e) ==
    /\ \E map \in {MapSet(analyzedArticlesMap, KeyOf(e.article), AsAnalyzed(e.article))} :
          /\ analyzedArticlesMap' = map
          /\ scanProgress' = AnalyzedProgress(e)
          /\ progress' = <<"Analyzing: ", e.progress.current, "/", e.progress.total>>
          /\ pendingArticles' = MarkAnalyzed(pendingArticles, e.article)
          /\ clientArticles' = MapValues(map)
          /\ data' = [r \in Regions |-> FilterRegion(MapValues(map), r)]
          /\ received' = Append(received, e)
    /\ before' = Snapshot
    /\ UNCHANGED <<eventSource, clientTotal>>

\* the articles listener on any articles event
OnArticles ==
    /\ eventSource = "open"
    /\ Len(received) < MaxReceived
    /\ \E e \in ArticlesEvents : ArticlesListener(e)
    /\ UNCHANGED outsideClient

\* the analyzed listener on any analyzed event
OnAnalyzed ==
    /\ eventSource = "open"
    /\ Len(received) < MaxReceived
    /\ \E e \in AnalyzedEventsOnWire : AnalyzedListener(e)
    /\ UNCHANGED outsideClient

ClientNext == OnArticles \/ OnAnalyzed

ClientSpec == ClientInit /\ [][ClientNext]_vars

----------------------------------------------------------------------------
(* The page: scans from the Scan button to their end, with the server's
   response as the stream of events of one run (src/src/app/page.tsx) *)

Scans == 1..MaxScans

\* the articles a server run announces, in order
PageItems ==
    <<[id |-> "i1", url |-> "u1", region |-> ""],
      [id |-> "", url |-> "u3", region |-> ""],
      [id |-> "i2", url |-> "u2", region |-> ""],
      [id |-> "i4", url |-> "u4", region |-> ""]>>

\* part_001 lines 74 and 128; total 0 is a status event without total
PageStatus(message, total) == [type |-> "status", message |-> message, total |-> total]

\* part_001 lines 163-167: the analyzed event of the k-th of n articles
PageAnalyzed(n, k) ==
    [type |-> "analyzed",
     article |-> [id |-> PageItems[k].id, url |-> PageItems[k].url,
                  region |-> ResultRegion(IF k % 2 = 0 THEN "Europe" ELSE "", "Economy")],
     progress |-> [current |-> k, total |-> n]]

\* part_001 lines 74-185: the events of a run that finds n articles
FullStream(n) ==
    << PageStatus("Fetching news articles...", 0),
       [type |-> "articles", articles |-> SubSeq(PageItems, 1, n), total |-> n],
       PageStatus("Analyzing articles...", n) >>
    \o [k \in 1..n |-> PageAnalyzed(n, k)]
    \o << [type |-> "complete", total |-> n] >>

\* part_001 lines 187-189: a run that throws after k events sends an error event
FailedStream(n, k) ==
    SubSeq(FullStream(n), 1, k) \o << [type |-> "error", message |-> "Scan failed"] >>

ServerStreams ==
    { FullStream(n) : n \in 0..MaxPageArticles }
    \cup UNION { { FailedStream(n, k) : k \in 1..(n + 3) } : n \in 0..MaxPageArticles }

\* a close that leaves the connection as it is
close_Ignored(c, rs) == rs

\* EventSource.prototype.close on the source of scan c
close(c, rs) == [rs EXCEPT ![c] = "closed"]

\* lines 883-885
CloseOnScan(ref, rs) == IF ref # 0 THEN close(ref, rs) ELSE rs

\* a variant of stopScan that forgets the connection without closing it
CloseOnStop_Forget(ref, rs) == rs

\* lines 871-873
CloseOnStop(ref, rs) == IF ref # 0 THEN close(ref, rs) ELSE rs

\* a variant of the complete listener that leaves the connection to the server
CloseOnComplete_Skip(c, rs) == rs

\* line 956
CloseOnComplete(c, rs) == close(c, rs)

\* a closed EventSource dispatches nothing: what it has not dispatched is lost
Unread(rs, st) == [s \in Scans |-> IF rs[s] = "closed" THEN <<>> ELSE st[s]]

\* line 992: data?.message || 'Connection error'; message "" is an error
\* Event that is no MessageEvent
ListenerError(message) == IF message # "" THEN message ELSE "Connection error"

\* a variant that writes the row twice
InsertRow_Twice(rows, row) == Append(Append(rows, row), row)

\* part_000 lines 36-40: supabase.from('scans').insert([scan]) succeeded
InsertRow(rows, row) == Append(rows, row)

\* part_000 lines 30-47: how saveScan can return
SaveOutcomes == IF supabase THEN {"inserted", "failed"} ELSE {"skipped"}

\* the page of a browser that has just loaded it
PageInit ==
    /\ ServerIdle
    /\ RankIdle
    /\ FallbackIdle
    /\ eventSource = "none"
    /\ analyzedArticlesMap = <<>>
    /\ pendingArticles = <<>>
    /\ clientArticles = <<>>
    /\ data = "null"
    /\ clientTotal = 0
    /\ progress = <<"">>
    /\ scanProgress = [current |-> 0, total |-> 0]
    /\ received = <<>>
    /\ before = <<>>
    /\ supabase \in BOOLEAN
    /\ PageStart

\* lines 881-899, called by the Scan button, which is disabled while loading
\* (line 1073)
ScanNews ==
    /\ ~loading
    /\ scanNo < MaxScans
    /\ \E rs \in {CloseOnScan(eventSourceRef, readyState)} :
          /\ readyState' = [rs EXCEPT ![scanNo + 1] = "connecting"]
          /\ stream' = Unread(rs, stream)
    /\ eventSourceRef' = scanNo + 1
    /\ scanNo' = scanNo + 1
    /\ eventSource' = "open"
    /\ loading' = TRUE
    /\ error' = "null"
    /\ progress' = <<"Connecting...">>
    /\ scanProgress' = [current |-> 0, total |-> 0]
    /\ pendingArticles' = <<>>
    /\ clientArticles' = <<>>
    /\ data' = "null"
    /\ summary' = 0
    /\ analyzedArticlesMap' = <<>>
    /\ received' = <<>>
    /\ before' = <<>>
    /\ UNCHANGED <<clientTotal, summaryLoading, lastScan, runs, post, scans, supabase,
                   timers, ended, saved>>
    /\ UNCHANGED outsidePage

\* lines 870-878, called by the Stop button, which is shown while loading
\* (line 1086)
StopScan ==
    /\ loading
    /\ \E rs \in {CloseOnStop(eventSourceRef, readyState)} :
          /\ readyState' = rs
          /\ stream' = Unread(rs, stream)
    /\ ended' = IF eventSourceRef # 0 THEN [ended EXCEPT ![eventSourceRef] = "stopped"]
                 ELSE ended
    /\ eventSourceRef' = 0
    /\ eventSource' = "none"
    /\ loading' = FALSE
    /\ progress' = <<"Scan stopped">>
    /\ timers' = timers + 1
    /\ UNCHANGED <<analyzedArticlesMap, pendingArticles, clientArticles, data, clientTotal,
                   scanProgress, received, before>>
    /\ UNCHANGED <<error, summary, summaryLoading, lastScan, runs, post, scans, supabase,
                   scanNo, saved>>
    /\ UNCHANGED outsidePage

\* line 877: the timeout of stopScan fires
StopTimer ==
    /\ timers > 0
    /\ timers' = timers - 1
    /\ progress' = <<"">>
    /\ UNCHANGED <<eventSource, analyzedArticlesMap, pendingArticles, clientArticles, data,
                   clientTotal, scanProgress, received, before>>
    /\ UNCHANGED <<loading, error, summary, summaryLoading, lastScan, eventSourceRef,
                   readyState, stream, runs, post, scans, supabase, scanNo, ended, saved>>
    /\ UNCHANGED outsidePage

\* what no listener writes
PageFixed == <<summary, summaryLoading, scans, supabase, timers, scanNo, saved>>

\* line 898: the EventSource of scan c requests /api/scan-stream, and the
\* handler answers with the event stream of a run; a source that is still
\* "connecting" after an error would request it again
Connect(c) ==
    /\ readyState[c] = "connecting"
    /\ readyState' = [readyState EXCEPT ![c] = "open"]
    /\ runs' = [runs EXCEPT ![c] = @ + 1]
    /\ \E st \in ServerStreams : stream' = [stream EXCEPT ![c] = st]
    /\ UNCHANGED clientVars
    /\ UNCHANGED <<loading, error, lastScan, eventSourceRef, post, ended>>
    /\ UNCHANGED PageFixed
    /\ UNCHANGED outsidePage

\* lines 988-1007 on one error event: the listener of line 988, then the
\* handler onerror of line 997; rs is the ready state the event is fired in
OnErrorEvent(c, rs, e) ==
    \E listened \in {close(c, rs)} :
      \E handled \in {IF listened[c] = "closed" THEN listened ELSE close(c, listened)} :
          /\ readyState' = handled
          /\ stream' = Unread(handled, stream)
          /\ error' = IF listened[c] = "closed" THEN ListenerError(e.message)
                       ELSE "Connection lost"
          /\ eventSourceRef' = 0
          /\ eventSource' = "none"
          /\ loading' = FALSE
          /\ progress' = <<"">>
          /\ ended' = [ended EXCEPT ![c] = "error"]
          /\ received' = Append(received, e)
          /\ UNCHANGED <<analyzedArticlesMap, pendingArticles, clientArticles, data,
                         clientTotal, scanProgress, before>>
          /\ UNCHANGED <<lastScan, post>>
          /\ UNCHANGED PageFixed
          /\ UNCHANGED outsidePage

\* an error Event that carries no data
PlainError == [type |-> "error", message |-> ""]

\* part_001 lines 57-62: the handler answers 500 with a JSON body; the
\* EventSource fails the connection and fires an error event
Refuse(c) ==
    /\ readyState[c] = "connecting"
    /\ runs' = [runs EXCEPT ![c] = @ + 1]
    /\ OnErrorEvent(c, close(c, readyState), PlainError)

\* the response of scan c ends or breaks: the EventSource goes back to
\* connecting and fires an error event
Drop(c) ==
    /\ readyState[c] = "open"
    /\ UNCHANGED runs
    /\ OnErrorEvent(c, [readyState EXCEPT ![c] = "connecting"], PlainError)

\* the next event of scan c is of this type and its source dispatches it
Dispatches(c, type) ==
    /\ readyState[c] = "open"
    /\ stream[c] # <<>>
    /\ Head(stream[c]).type = type

\* lines 901-907: the status listener
DispatchStatus(c) ==
    /\ Dispatches(c, "status")
    /\ \E e \in {Head(stream[c])} :
          /\ progress' = <<e.message>>
          /\ scanProgress' = IF e.total # 0 THEN [scanProgress EXCEPT !.total = e.total]
                              ELSE scanProgress
          /\ received' = Append(received, e)
    /\ stream' = [stream EXCEPT ![c] = Tail(@)]
    /\ UNCHANGED <<eventSource, analyzedArticlesMap, pendingArticles, clientArticles, data,
                   clientTotal, before>>
    /\ UNCHANGED <<loading, error, lastScan, eventSourceRef, readyState, runs, post, ended>>
    /\ UNCHANGED PageFixed
    /\ UNCHANGED outsidePage

\* lines 909-921
DispatchArticles(c) ==
    /\ Dispatches(c, "articles")
    /\ ArticlesListener(Head(stream[c]))
    /\ stream' = [stream EXCEPT ![c] = Tail(@)]
    /\ UNCHANGED <<loading, error, lastScan, eventSourceRef, readyState, runs, post, ended>>
    /\ UNCHANGED PageFixed
    /\ UNCHANGED outsidePage

\* lines 923-952
DispatchAnalyzed(c) ==
    /\ Dispatches(c, "analyzed")
    /\ AnalyzedListener(Head(stream[c]))
    /\ stream' = [stream EXCEPT ![c] = Tail(@)]
    /\ UNCHANGED <<loading, error, lastScan, eventSourceRef, readyState, runs, post, ended>>
    /\ UNCHANGED PageFixed
    /\ UNCHANGED outsidePage

\* lines 954-982: the complete listener up to its first await, in which
\* saveScan has been called
DispatchComplete(c) ==
    /\ Dispatches(c, "complete")
    /\ \E e \in {Head(stream[c])} :
        \E rs \in {CloseOnComplete(c, readyState)} :
          /\ readyState' = rs
          /\ stream' = Unread(rs, [stream EXCEPT ![c] = Tail(@)])
          /\ clientTotal' = e.total
          /\ post' = [post EXCEPT ![c] = [at |-> "saving", total |-> e.total]]
          /\ received' = Append(received, e)
    /\ eventSourceRef' = 0
    /\ eventSource' = "none"
    /\ loading' = FALSE
    /\ lastScan' = c
    /\ pendingArticles' = <<>>
    /\ progress' = <<"Generating briefing...">>
    /\ clientArticles' = MapValues(analyzedArticlesMap)
    /\ ended' = [ended EXCEPT ![c] = "complete"]
    /\ UNCHANGED <<analyzedArticlesMap, data, scanProgress, before>>
    /\ UNCHANGED <<error, runs>>
    /\ UNCHANGED PageFixed
    /\ UNCHANGED outsidePage

\* lines 988-995 and 997-1007 on the error event the server sent
DispatchError(c) ==
    /\ Dispatches(c, "error")
    /\ UNCHANGED runs
    /\ OnErrorEvent(c, readyState, Head(stream[c]))

\* what the continuations of the complete listener leave alone
PostFixed ==
    <<loading, error, lastScan, eventSourceRef, readyState, stream, runs, supabase,
      timers, scanNo, ended>>

\* part_000 lines 29-48 and page.tsx lines 976-984, 852-858: saveScan returns,
\* and generateSummary runs up to its fetch
SaveReturn(c) ==
    /\ post[c].at = "saving"
    /\ \E outcome \in SaveOutcomes :
          /\ scans' = IF outcome = "inserted"
                       THEN InsertRow(scans, [scan |-> c, total_articles |-> post[c].total])
                       ELSE scans
          /\ saved' = [saved EXCEPT ![c] = outcome]
    /\ summaryLoading' = TRUE
    /\ post' = [post EXCEPT ![c].at = "summarizing"]
    /\ UNCHANGED clientVars
    /\ UNCHANGED summary
    /\ UNCHANGED PostFixed
    /\ UNCHANGED outsidePage

\* page.tsx lines 858-866 and 985: the summary request settles, with a
\* summary, without one or by failing; then the progress text is cleared
SummaryReturn(c) ==
    /\ post[c].at = "summarizing"
    /\ \E answer \in {"summary", "empty", "failed"} :
          summary' = IF answer = "summary" THEN c ELSE summary
    /\ summaryLoading' = FALSE
    /\ progress' = <<"">>
    /\ post' = [post EXCEPT ![c].at = "done"]
    /\ UNCHANGED <<eventSource, analyzedArticlesMap, pendingArticles, clientArticles, data,
                   clientTotal, scanProgress, received, before>>
    /\ UNCHANGED <<scans, saved>>
    /\ UNCHANGED PostFixed
    /\ UNCHANGED outsidePage

PageNext ==
    \/ ScanNews
    \/ StopScan
    \/ StopTimer
    \/ \E c \in Scans :
          \/ Connect(c)
          \/ Refuse(c)
          \/ Drop(c)
          \/ DispatchStatus(c)
          \/ DispatchArticles(c)
          \/ DispatchAnalyzed(c)
          \/ DispatchComplete(c)
          \/ DispatchError(c)
          \/ SaveReturn(c)
          \/ SummaryReturn(c)

PageSpec == PageInit /\ [][PageNext]_vars

----------------------------------------------------------------------------
(* Vocabulary of the properties *)

EventIdx(type) == { k \in 1..Len(events) : events[k].type = type }

AnalyzedIdx == EventIdx("analyzed")

TerminalIdx == EventIdx("complete") \cup EventIdx("error")

\* the item list and total of the articles event, once it is sent
Announced == events[CHOOSE k \in EventIdx("articles") : TRUE]

\* the analyzed events that carry the article with this id
CarriedBy(id) == { k \in AnalyzedIdx : events[k].article.id = id }

NumBatches == (Len(sortedArticles) + batchSize - 1) \div batchSize

BatchLen(b) == Len(Batch(sortedArticles, (b - 1) * batchSize))

\* the batch an analyzed event belongs to: the batch of the article it carries
EventBatch(k) ==
    BatchNo((CHOOSE j \in 1..Len(sortedArticles) :
                sortedArticles[j].id = events[k].article.id) - 1)

BatchEvents(b) == { k \in AnalyzedIdx : EventBatch(k) = b }

CallsOf(b) == { k \in 1..Len(calls) : calls[k].batch = b }

Exhausted(k) == events[k].article.reason = "AI analysis unavailable"

----------------------------------------------------------------------------
(* C1: a run that completes (it was not cancelled and hit no exception) has
   sent as many analyzed events as the articles event announced, and every
   announced article is carried by exactly one analyzed event, whatever the
   remote classifier answered. *)
C1_Totality ==
    pc = "done" =>
        /\ Cardinality(AnalyzedIdx) = Announced.total
        /\ Announced.total = Len(Announced.articles)
        /\ \A j \in 1..Len(Announced.articles) :
              Cardinality(CarriedBy(Announced.articles[j].id)) = 1

\* a completed run of two batches, one resolved by the exhaustion fallback,
\* one holding a remote result and a per-item fallback
C1_Witness ==
    /\ pc = "done"
    /\ Cardinality(AnalyzedIdx) > batchSize
    /\ \E k \in AnalyzedIdx : Exhausted(k)
    /\ \E k \in AnalyzedIdx : events[k].article.by = "remote"
    /\ \E k \in AnalyzedIdx : events[k].article.reason = "Analysis incomplete"

(* C2: the articles event is sent once, before every analyzed event and
   before any classifier call; at most one terminal event (complete or error)
   is sent, nothing follows it, and when the server has closed the channel
   the last event sent is that terminal event. *)
C2_EventOrder ==
    /\ Cardinality(EventIdx("articles")) <= 1
    /\ \A k \in AnalyzedIdx : \E a \in EventIdx("articles") : a < k
    /\ calls # <<>> => EventIdx("articles") # {}
    /\ Cardinality(TerminalIdx) <= 1
    /\ \A t \in TerminalIdx : t = Len(events) /\ closed
    /\ closed => TerminalIdx = {Len(events)}

\* a closed stream that carried the analyzed events of two batches
C2_Witness ==
    /\ closed
    /\ Cardinality(AnalyzedIdx) > batchSize
    /\ events[Len(events)].type = "complete"

(* C3: the analyzed events carry progress.current = 1, 2, 3, ... in the order
   they are sent, never more than progress.total, and progress.total is in
   every one of them the total of the articles event. *)
C3_ProgressMonotone ==
    \A k \in AnalyzedIdx :
        /\ events[k].current = Cardinality({ j \in AnalyzedIdx : j <= k })
        /\ events[k].current <= events[k].total
        /\ events[k].total = Announced.total

\* progress has advanced into the second batch
C3_Witness ==
    \E k \in AnalyzedIdx : events[k].current > batchSize /\ events[k].current = events[k].total

(* C4, as claimed: within one batch either every item carries a result built
   from the remote response or every item carries a Fallback Classifier
   result, never a mix. *)
C4_AllRemoteOrAllFallback ==
    \A b \in 1..NumBatches :
        \/ \A k \in BatchEvents(b) : events[k].article.by = "remote"
        \/ \A k \in BatchEvents(b) : events[k].article.by = "fallback"

(* C4, amended: within one batch either every item carries what a successful
   remote attempt produced for it (the remote result found for the item, or
   the per-item fallback "Analysis incomplete"), or every item carries the
   exhaustion fallback "AI analysis unavailable"; the exhaustion fallback is
   never mixed with results of a remote response. *)
C4_ExhaustionNeverMixed ==
    \A b \in 1..NumBatches :
        \/ \A k \in BatchEvents(b) :
              /\ ~Exhausted(k)
              /\ \E c \in CallsOf(b) : calls[c].outcome = "ok"
        \/ \A k \in BatchEvents(b) :
              /\ Exhausted(k)
              /\ \A c \in CallsOf(b) : calls[c].outcome = "fail"

\* one batch holds a remote result next to a per-item fallback, another batch
\* was resolved by the exhaustion fallback
C4_Witness ==
    /\ \E b \in 1..NumBatches :
          /\ \E k \in BatchEvents(b) : events[k].article.by = "remote"
          /\ \E k \in BatchEvents(b) : events[k].article.reason = "Analysis incomplete"
    /\ \E k \in AnalyzedIdx : Exhausted(k)

(* C5: every batch that is resolved had at least one and at most R = 2
   classifier calls; a call that succeeds is the last call of its batch; and
   a batch is resolved by the exhaustion fallback exactly when R calls were
   made for it and all failed, in which case every item of the batch carries
   the fallback result. *)
C5_RetryBudget ==
    \A b \in 1..NumBatches :
        /\ Cardinality(CallsOf(b)) <= 2
        /\ \A c \in CallsOf(b) : calls[c].outcome = "ok" => \A d \in CallsOf(b) : d <= c
        /\ BatchEvents(b) # {} =>
              /\ Cardinality(CallsOf(b)) >= 1
              /\ Cardinality(BatchEvents(b)) = BatchLen(b)
              /\ (\E k \in BatchEvents(b) : Exhausted(k))
                    <=> (/\ Cardinality(CallsOf(b)) = 2
                         /\ \A c \in CallsOf(b) : calls[c].outcome = "fail")
              /\ (\E k \in BatchEvents(b) : Exhausted(k))
                    => \A k \in BatchEvents(b) : Exhausted(k)

\* one batch was resolved by the fallback after two failed calls, another by
\* a call that succeeded after a failed one
C5_Witness ==
    /\ \E b \in 1..NumBatches :
          /\ BatchEvents(b) # {}
          /\ \A k \in BatchEvents(b) : Exhausted(k)
          /\ Cardinality(CallsOf(b)) = 2
    /\ \E b \in 1..NumBatches :
          /\ BatchEvents(b) # {}
          /\ \E c, d \in CallsOf(b) :
                c < d /\ calls[c].outcome = "fail" /\ calls[d].outcome = "ok"

\* a call whose response held an analyses array of another length than its batch
Mismatched(c) == calls[c].parsed /\ Len(calls[c].analyses) # BatchLen(calls[c].batch)

(* C6, as claimed: a response whose number of results differs from the number
   of items of the batch is a failed attempt, and none of its results is
   attached to an item. *)
C6_CountMismatchFails ==
    \A c \in 1..Len(calls) :
        Mismatched(c) =>
            /\ calls[c].outcome = "fail"
            /\ \A k \in BatchEvents(calls[c].batch) : events[k].article.by # "remote"

(* C6, amended: a response whose number of results differs from the number
   of items of the batch is not a failed attempt: it ends the attempts for
   the batch, no exhaustion fallback is applied, and each item receives the
   result found for it by articleNum or array position if that result has a
   summary, and the per-item fallback otherwise. *)
C6_CountMismatchAccepted ==
    \A c \in 1..Len(calls) :
        Mismatched(c) =>
            /\ calls[c].outcome = "ok"
            /\ \A d \in CallsOf(calls[c].batch) : d <= c
            /\ \A k \in BatchEvents(calls[c].batch) :
                  LET pos == CHOOSE q \in 1..batchSize :
                                 Batch(sortedArticles, (calls[c].batch - 1) * batchSize)[q].id
                                     = events[k].article.id
                      r == LookupAnalysis(calls[c].analyses, pos)
                  IN  /\ ~Exhausted(k)
                      /\ IF r # 0 /\ calls[c].analyses[r].summary
                         THEN events[k].article.by = "remote" /\ events[k].article.rid = r
                         ELSE events[k].article.reason = "Analysis incomplete"

\* a response one result short whose results were attached to the items
C6_Witness ==
    \E c \in 1..Len(calls) :
        /\ Mismatched(c)
        /\ Len(calls[c].analyses) < BatchLen(calls[c].batch)
        /\ \E k \in BatchEvents(calls[c].batch) : events[k].article.by = "remote"
        /\ \E k \in BatchEvents(calls[c].batch) : events[k].article.by = "fallback"

\* the response has one result per item of the batch, each keyed by an articleNum >= 1
KeyedPerItem(c) ==
    /\ calls[c].outcome = "ok"
    /\ Len(calls[c].analyses) = BatchLen(calls[c].batch)
    /\ \A r \in 1..Len(calls[c].analyses) : calls[c].analyses[r].num >= 1

(* C7: when the response has one result per item keyed by articleNum, in any
   order, each item receives the result whose articleNum is its 1-based
   position in the batch, and an item whose result is absent or has no
   summary receives the Fallback Classifier's result. *)
C7_KeyedByIndex ==
    \A c \in 1..Len(calls) :
        KeyedPerItem(c) =>
            \A k \in BatchEvents(calls[c].batch) :
                LET pos == CHOOSE q \in 1..batchSize :
                               Batch(sortedArticles, (calls[c].batch - 1) * batchSize)[q].id
                                   = events[k].article.id
                    own == FindByNum(calls[c].analyses, pos, 1)
                IN  IF own # 0 /\ calls[c].analyses[own].summary
                    THEN events[k].article.by = "remote" /\ events[k].article.num = pos
                    ELSE events[k].article.by = "fallback"

\* a remote call of the run has hung: it will never settle
AnyHung ==
    \/ \E q \in Queries : qStatus[q] = "hung"
    \/ calls # <<>> /\ calls[Len(calls)].outcome = "hung"

\* the run ended with complete as the last event and the channel closed, no
\* error event was sent, and every batch was submitted to the classifier
Completed ==
    /\ closed
    /\ events[Len(events)].type = "complete"
    /\ EventIdx("error") = {}
    /\ \A b \in 1..NumBatches : CallsOf(b) # {}

(* C8: if every remote call settles and the consumer does not cancel, the run
   eventually sends complete and closes the channel, whatever calls failed:
   no error event is sent and every batch is submitted to the classifier,
   also after a batch that exhausted its retry budget. *)
C8_RunCompletes == <>(cancelled \/ AnyHung \/ pc = "rejected" \/ Completed)

\* a completed run whose first batch exhausted the retry budget and whose
\* second batch was submitted to the classifier
C8_Witness ==
    /\ Completed
    /\ NumBatches >= 2
    /\ \A k \in BatchEvents(1) : Exhausted(k)
    /\ \E c \in CallsOf(2) : calls[c].outcome = "ok"

(* C9: a remote call that never returns does not block the run: every run
   that is not cancelled reaches a terminal event. *)
C9_HangBounded == <>(cancelled \/ pc = "rejected" \/ TerminalIdx # {})

(* C10: after the consumer closed the channel the server starts no classifier
   call for a batch later than the one in flight when it was closed. *)
C10_NoCallAfterCancel ==
    \A c \in 1..Len(calls) : calls[c].afterCancel => calls[c].batch <= cancelAt

----------------------------------------------------------------------------
(* Missing credentials and failed searches *)

MissingKey == ~env.news \/ ~env.gemini

(* C11: when the news key or the classifier key is missing, the endpoint sends
   a terminal error event on the event stream, and makes no search fetch and
   no classifier call. *)
C11_MissingKeyErrorEvent ==
    (MissingKey /\ pc # "request") =>
        /\ EventIdx("error") # {}
        /\ events[Len(events)].type = "error"
        /\ \A q \in Queries : qStatus[q] = "idle"
        /\ calls = <<>>

\* the run is past Promise.all and was not cut short by the consumer
Fetched == pc \in {"classify", "retryWait", "batchDelay", "done"}

\* the announced list holds an article with this url
AnnouncedUrl(url) ==
    \E j \in 1..Len(Announced.articles) : Announced.articles[j].url = url

(* C12: a search query that fails contributes an empty list and nothing else:
   the run is not aborted and sends no error event, every acceptable item of
   a query that succeeded is announced in the articles event, and when every
   query fails the run sends articles with total 0 and then complete. *)
C12_FailedQueriesDegrade ==
    /\ \A q \in Queries : qStatus[q] = "failed" => results[q] = <<>>
    /\ pc = "aborted" => cancelled
    /\ EventIdx("error") = {}
    /\ Fetched =>
          /\ EventIdx("articles") # {}
          /\ \A q \in Queries : \A k \in 1..Len(results[q]) :
                AcceptableTitle(results[q][k].title) => AnnouncedUrl(results[q][k].url)
          /\ (\A q \in Queries : qStatus[q] = "failed") =>
                /\ pc = "done"
                /\ Announced.total = 0
                /\ AnalyzedIdx = {}
                /\ events[Len(events)].type = "complete"

\* a completed run in which the first query failed and a later query's items
\* were announced
C12_Witness ==
    /\ pc = "done"
    /\ qStatus[1] = "failed"
    /\ qStatus[4] = "ok"
    /\ results[4] # <<>>
    /\ Announced.total > 0
    /\ events[Len(events)].type = "complete"

----------------------------------------------------------------------------
(* Deduplication and ranking *)

\* the ranker's input in the order the loops of lines 106-107 visit it
RankFlat == FlattenResults(rankIn, 1)

\* the positions of the input the deduplicator is to keep: an acceptable
\* title, and no earlier item with the same URL and an acceptable title
FirstAcceptable ==
    { k \in 1..Len(RankFlat) :
        /\ AcceptableTitle(RankFlat[k].title)
        /\ \A j \in 1..(k - 1) :
              ~(RankFlat[j].url = RankFlat[k].url /\ AcceptableTitle(RankFlat[j].title)) }

InList(article, list) == \E a \in 1..Len(list) : list[a] = article

(* C13: the deduplicator's output holds no two items with the same URL and no
   item with an empty or '[Removed]' title, and for each URL exactly the
   first item in concatenation order that has an acceptable title. *)
C13_DedupFirstWins ==
    rankPc \in {"once", "twice"} =>
        /\ \A a, b \in 1..Len(rankDedup) :
              a # b => rankDedup[a].url # rankDedup[b].url
        /\ \A a \in 1..Len(rankDedup) : AcceptableTitle(rankDedup[a].title)
        /\ Len(rankDedup) = Cardinality(FirstAcceptable)
        /\ \A k \in FirstAcceptable : InList(RankFlat[k], rankDedup)

\* two queries return the same URL under different titles, and the output
\* holds one entry for it, with the title met first
C13_Witness ==
    /\ rankPc = "once"
    /\ Len(rankIn[1]) = 2 /\ Len(rankIn[2]) = 1
    /\ rankIn[1][1].url = rankIn[2][1].url
    /\ rankIn[1][1].title = "Headline A"
    /\ rankIn[2][1].title = "Headline B"
    /\ rankIn[1][2].url # rankIn[1][1].url
    /\ rankIn[1][2].title = "[Removed]"
    /\ Len(rankDedup) = 1
    /\ rankDedup[1].title = "Headline A"

(* C14: the deduplicator / ranker run on its own output returns that output
   unchanged. *)
C14_RankIdempotent == rankPc = "twice" => rankAgain = rankOut

\* a second pass over an output of two items with the same timestamp, whose
\* first pass dropped an item
C14_Witness ==
    /\ rankPc = "twice"
    /\ Len(rankOut) = 2
    /\ rankOut[1].publishedAt = rankOut[2].publishedAt
    /\ Len(RankFlat) > Len(rankOut)
    /\ rankAgain = rankOut

(* C15: the ranked list is ordered by publication timestamp, newest first,
   holds at most the budget's number of items (100 in the handler), holds
   every deduplicated item when these fit the budget, and otherwise holds
   budget-many of them, none older than a deduplicated item left out. *)
C15_RankedNewestFirst ==
    rankPc \in {"once", "twice"} =>
        /\ \A a, b \in 1..Len(rankOut) :
              a < b => rankOut[a].publishedAt >= rankOut[b].publishedAt
        /\ Len(rankOut) <= rankBudget
        /\ rankBudget = MaxArticles => Len(rankOut) <= 100
        /\ \A a \in 1..Len(rankOut) : InList(rankOut[a], rankDedup)
        /\ Len(rankDedup) <= rankBudget =>
              \A d \in 1..Len(rankDedup) : InList(rankDedup[d], rankOut)
        /\ Len(rankDedup) > rankBudget =>
              /\ Len(rankOut) = rankBudget
              /\ \A d \in 1..Len(rankDedup) :
                    ~InList(rankDedup[d], rankOut) =>
                        \A a \in 1..Len(rankOut) :
                            rankOut[a].publishedAt >= rankDedup[d].publishedAt

\* three items survive deduplication under a budget of two, and the oldest
\* one, which came first in the input, is the one left out
C15_Witness ==
    /\ rankPc = "once"
    /\ rankBudget = 2
    /\ Len(rankDedup) = 3
    /\ rankDedup[1].publishedAt < rankDedup[2].publishedAt
    /\ rankDedup[2].publishedAt = rankDedup[3].publishedAt
    /\ rankOut = <<rankDedup[2], rankDedup[3]>>

----------------------------------------------------------------------------
(* Batching *)

\* the analyzed events in the order they were sent
AnalyzedSeq == [j \in 1..Cardinality(AnalyzedIdx) |->
                  events[CHOOSE k \in AnalyzedIdx :
                            Cardinality({ m \in AnalyzedIdx : m <= k }) = j]]

CeilDiv(n, d) == (n + d - 1) \div d

\* the batches the classifier has been called for
CalledBatches == { calls[c].batch : c \in 1..Len(calls) }

(* C16: the list of n articles is processed as ceil(n/5) contiguous batches in
   list order, each of 5 articles but possibly the last, one after another:
   the classifier is called for the batches 1, 2, ... in turn, and when it is
   called for a batch the analyzed events of exactly the articles before that
   batch have been sent; a run of 12 articles has batches of 5, 5 and 2
   articles and sends 12 analyzed events before complete. *)
C16_SequentialBatches ==
    LET n == Len(sortedArticles)
        sent == Cardinality(AnalyzedIdx)
    IN  /\ \A c \in 1..Len(calls) :
              calls[c].batch = IF c = 1 THEN 1
                               ELSE IF calls[c - 1].outcome = "ok"
                                       \/ Cardinality({ d \in 1..(c - 1) :
                                              calls[d].batch = calls[c - 1].batch }) >= maxRetries
                                    THEN calls[c - 1].batch + 1
                                    ELSE calls[c - 1].batch
        /\ \A j \in 1..sent : AnalyzedSeq[j].article.id = sortedArticles[j].id
        /\ pc \in {"classify", "retryWait"} =>
              /\ calls[Len(calls)].batch = BatchNo(i)
              /\ sent = batchSize * (BatchNo(i) - 1)
              /\ sent < n
        /\ pc = "batchDelay" =>
              /\ sent = batchSize * BatchNo(i)
              /\ sent < n
        /\ pc = "done" =>
              /\ sent = n
              /\ CalledBatches = 1..CeilDiv(n, batchSize)
              /\ events[Len(events)].type = "complete"
              /\ \A b \in 1..CeilDiv(n, batchSize) :
                    Cardinality(BatchEvents(b)) =
                        IF b < CeilDiv(n, batchSize) THEN batchSize
                        ELSE n - batchSize * (b - 1)
        /\ (pc = "done" /\ n = 12) =>
              /\ CalledBatches = {1, 2, 3}
              /\ <<Cardinality(BatchEvents(1)), Cardinality(BatchEvents(2)),
                    Cardinality(BatchEvents(3))>> = <<5, 5, 2>>
              /\ sent = 12

\* a completed run of 12 articles in batches of 5, 5 and 2
C16_Witness ==
    /\ pc = "done"
    /\ Len(sortedArticles) = 12
    /\ Cardinality(AnalyzedIdx) = 12
    /\ Cardinality(BatchEvents(3)) = 2
    /\ \E c \in CallsOf(2) : calls[c].outcome = "fail"
    /\ events[Len(events)].type = "complete"

----------------------------------------------------------------------------
(* The fallback classifier *)

\* some cue occurs in the text: at some position the text spells it out
HasCue(text, cues) ==
    \E n \in 1..Len(cues) : \E at \in 0..(Len(text) - Len(cues[n])) :
        \A j \in 1..Len(cues[n]) : text[at + j] = cues[n][j]

FedRaisesRates ==
    /\ fbArticle.title = <<"F", "e", "d", " ", "r", "a", "i", "s", "e", "s", " ", "r", "a", "t", "e", "s">>
    /\ fbArticle.description = <<"r", "a", "t", "e", " ", "h", "i", "k", "e", " ", "s", "u", "r", "g", "e", "s", " ", "b", "a", "n", "k", " ", "s", "t", "o", "c", "k", "s">>

(* C17: the fallback sentiment is Mixed exactly when the lowercased title and
   description contain a bullish and a bearish cue, Neutral exactly when they
   contain neither, Bullish with bullish cues only and Bearish with bearish
   cues only; 'Fed raises rates' / 'rate hike surges bank stocks' is Bullish. *)
C17_FallbackSentiment ==
    fbPc = "done" =>
        LET text == toLowerCase(fbArticle.title) \o <<" ">>
                        \o toLowerCase(fbArticle.description)
            bullish == HasCue(text, bullishKeywords)
            bearish == HasCue(text, bearishKeywords)
            sentiment == fbOut.analysis.overallSentiment
        IN  /\ sentiment = "Mixed" <=> (bullish /\ bearish)
            /\ sentiment = "Neutral" <=> (~bullish /\ ~bearish)
            /\ (bullish /\ ~bearish) => sentiment = "Bullish"
            /\ (bearish /\ ~bullish) => sentiment = "Bearish"
            /\ FedRaisesRates => sentiment = "Bullish"

\* a headline whose cues are one bullish, in capitals, and one bearish
C17_Witness ==
    /\ fbPc = "done"
    /\ fbArticle.title = <<"S", "t", "o", "c", "k", "s", " ", "S", "U", "R", "G", "E">>
    /\ fbArticle.description = <<"O", "i", "l", " ", "p", "r", "i", "c", "e", "s", " ", "d", "r", "o", "p">>
    /\ fbOut.analysis.overallSentiment = "Mixed"

\* the lowercased text the classifier reads
FbText == toLowerCase(fbArticle.title) \o <<" ">> \o toLowerCase(fbArticle.description)

\* the sectors one of whose keywords occurs in the text
MatchingSectors ==
    { sectorKeywords[n].sector : n \in { m \in 1..Len(sectorKeywords) :
                                           HasCue(FbText, sectorKeywords[m].keywords) } }

FbSectors == fbOut.analysis.sectors

\* the sector that stands for a category when no keyword matches
CategoryDefault ==
    IF fbArticle.category = "Policy" THEN "Industrials"
    ELSE IF fbArticle.category = "Politics" THEN "Defense"
    ELSE "Financials"

\* the impact the sentiment gives
ImpactOfSentiment ==
    IF fbOut.analysis.overallSentiment \in {"Bullish", "Bearish"}
    THEN fbOut.analysis.overallSentiment ELSE "Uncertain"

\* one SectorImpact per matching sector, or one for the category's default
\* sector; the fixed fields; the legacy commodity fields
FallbackShape ==
    /\ Len(FbSectors) >= 1
    /\ \A a, b \in 1..Len(FbSectors) : a # b => FbSectors[a].sector # FbSectors[b].sector
    /\ MatchingSectors # {} =>
          { FbSectors[a].sector : a \in 1..Len(FbSectors) } = MatchingSectors
    /\ MatchingSectors = {} =>
          /\ Len(FbSectors) = 1
          /\ FbSectors[1].sector = CategoryDefault
    /\ \A a \in 1..Len(FbSectors) :
          /\ FbSectors[a].confidence = "Low"
          /\ FbSectors[a].timeframe = "Short-term"
          /\ FbSectors[a].tickers = <<>>
          /\ FbSectors[a].reasoning = fbReason
    /\ fbOut.implications.gold = "Neutral"
    /\ fbOut.implications.silver = "Neutral"
    /\ fbOut.implications.rareMinerals = "Neutral"
    /\ fbOut.implications.stockMarkets = fbOut.analysis.overallSentiment

(* C18 as claimed: every result of the fallback has one SectorImpact per
   matching sector, or one for the category's default sector, each with
   confidence Low, timeframe Short-term, no tickers and the reason as
   reasoning, and each with the sentiment as impact when that is Bullish or
   Bearish and Uncertain otherwise; gold, silver and rare minerals are
   Neutral and stock markets carries the sentiment. *)
C18_ImpactFollowsSentiment ==
    fbPc = "done" =>
        /\ FallbackShape
        /\ \A a \in 1..Len(FbSectors) : FbSectors[a].impact = ImpactOfSentiment

(* C18, amended: as above, but only the SectorImpacts of matching sectors
   take their impact from the sentiment; the SectorImpact of the category's
   default sector has impact Uncertain whatever the sentiment. The example
   'Fed raises rates' has a SectorImpact for Financials with confidence Low. *)
C18_FallbackSectors ==
    fbPc = "done" =>
        /\ FallbackShape
        /\ MatchingSectors # {} =>
              \A a \in 1..Len(FbSectors) : FbSectors[a].impact = ImpactOfSentiment
        /\ MatchingSectors = {} => FbSectors[1].impact = "Uncertain"
        /\ FedRaisesRates =>
              \E a \in 1..Len(FbSectors) :
                  FbSectors[a].sector = "Financials" /\ FbSectors[a].confidence = "Low"

\* a bullish headline that names no sector: the default sector of its
\* category, with impact Uncertain
C18_Witness ==
    /\ fbPc = "done"
    /\ fbArticle.title = <<"S", "t", "o", "c", "k", "s", " ", "S", "U", "R", "G", "E">>
    /\ fbArticle.description = <<>>
    /\ fbArticle.category = "Politics"
    /\ fbOut.analysis.overallSentiment = "Bullish"
    /\ fbOut.implications.stockMarkets = "Bullish"
    /\ FbSectors = <<SectorImpact("Defense", "Uncertain", fbReason)>>

----------------------------------------------------------------------------
(* The client's reconciler *)

\* the last event handled is an analyzed event, and the event before it was
\* the same event
SameAnalyzedTwice ==
    /\ Len(received) >= 2
    /\ received[Len(received)].type = "analyzed"
    /\ received[Len(received)] = received[Len(received) - 1]

NoKeyTwice(keys) == \A a, b \in 1..Len(keys) : a # b => keys[a] # keys[b]

(* C20: handling an analyzed event is an idempotent upsert by key (id, else
   url): the same analyzed event handled a second time leaves the result
   map, the analyzed-article list and the pending list as they were after
   the first time, and after any sequence of events neither the result map
   nor the pending list holds two entries with the same key. *)
C20_IdempotentUpsert ==
    /\ SameAnalyzedTwice => Snapshot = before
    /\ NoKeyTwice([k \in 1..Len(analyzedArticlesMap) |-> analyzedArticlesMap[k].key])
    /\ NoKeyTwice([k \in 1..Len(clientArticles) |-> KeyOf(clientArticles[k])])
    /\ NoKeyTwice([k \in 1..Len(pendingArticles) |-> KeyOf(pendingArticles[k])])
    /\ \A k \in 1..Len(analyzedArticlesMap) :
          analyzedArticlesMap[k].key = KeyOf(analyzedArticlesMap[k].value)

\* two articles were announced, and the analyzed event of the one without an
\* id, keyed by its url, was handled twice
C20_Witness ==
    /\ SameAnalyzedTwice
    /\ Len(pendingArticles) = 2
    /\ received[Len(received)].article.id = ""
    /\ Len(analyzedArticlesMap) = 1
    /\ analyzedArticlesMap[1].key = "u3"
    /\ \E k \in 1..2 : pendingArticles[k] = analyzedArticlesMap[1].value
    /\ \E k \in 1..2 : pendingArticles[k].pending

\* the keys of the articles that some articles event handled so far announced
AnnouncedKeys ==
    UNION { { KeyOf(received[j].articles[a]) : a \in 1..Len(received[j].articles) } :
              j \in { m \in 1..Len(received) : received[m].type = "articles" } }

(* C21: every key held in the client's result state (the result map, the
   analyzed-article list, the per-region groups) was announced by an
   articles event: an analyzed event with another key adds no entry. *)
C21_KnownKeysOnly ==
    /\ \A k \in 1..Len(analyzedArticlesMap) : analyzedArticlesMap[k].key \in AnnouncedKeys
    /\ \A k \in 1..Len(clientArticles) : KeyOf(clientArticles[k]) \in AnnouncedKeys

\* the 1-based position in its batch of the article of event k, an event of
\* the batch of call c
PosInBatch(c, k) ==
    CHOOSE q \in 1..batchSize :
        Batch(sortedArticles, (calls[c].batch - 1) * batchSize)[q].id = events[k].article.id

(* C28: within one batch a result that carries articleNum j is attached only
   to the j-th item of the batch, and no result of the response is attached
   to two items, also when a result is taken by array position. *)
C28_ResultsAttachedOnce ==
    \A c \in 1..Len(calls) :
        calls[c].outcome = "ok" =>
            \A k \in BatchEvents(calls[c].batch) :
                events[k].article.by = "remote" =>
                    /\ events[k].article.num >= 1 => events[k].article.num = PosInBatch(c, k)
                    /\ \A m \in BatchEvents(calls[c].batch) \ {k} :
                           events[m].article.by = "remote" =>
                               events[m].article.rid # events[k].article.rid

\* the per-region groups that hold the value of entry m of the result map
GroupsHolding(m) ==
    { r \in Regions : \E k \in 1..Len(data[r]) : data[r][k] = analyzedArticlesMap[m].value }

(* C29: the result of every analyzed event has a region of the enumeration
   Americas, Europe, Asia, Middle East, Africa, whatever region the remote
   classifier returned, so every article of the result map is in exactly one
   of the client's per-region groups. *)
C29_RegionInEnumeration ==
    /\ \A j \in 1..Len(received) :
           received[j].type = "analyzed" => received[j].article.region \in Regions
    /\ \A m \in 1..Len(analyzedArticlesMap) : Cardinality(GroupsHolding(m)) = 1

\* the events of this type among those the current scan's listeners handled
Handled(type) == { j \in 1..Len(received) : received[j].type = type }

(* C22: once the articles event of a scan has been handled, the client's
   total count (the state total and the total of scanProgress) is the total
   that event announced, and no later status, analyzed or complete event of
   the scan makes it another value. *)
C22_TotalSetOnce ==
    \A j \in Handled("articles") :
        /\ clientTotal = received[j].total
        /\ scanProgress.total = received[j].total

\* a scan of two articles has been handled up to its complete event
C22_Witness ==
    /\ Handled("complete") # {}
    /\ Cardinality(Handled("analyzed")) = 2
    /\ Cardinality(Handled("status")) = 2
    /\ clientTotal = 2

\* the scan started last has ended: by complete, by an error or by a stop
LastScanEnded == scanNo > 0 /\ ended[scanNo] # ""

(* C23: once the page has handled complete, an error or disconnect, or a stop
   for a scan, no event of that scan is applied any more: until the next scan
   starts, the result map and the analyzed-article list are not written and
   no listener runs. *)
C23_FrozenAfterEnd ==
    [][ (LastScanEnded /\ scanNo' = scanNo) =>
            /\ analyzedArticlesMap' = analyzedArticlesMap
            /\ clientArticles' = clientArticles
            /\ received' = received ]_vars

\* a scan of two articles was stopped after its first result, and the page
\* has taken a step since (the timeout of stopScan has fired)
C23_Witness ==
    /\ LastScanEnded
    /\ ended[scanNo] = "stopped"
    /\ Len(pendingArticles) = 2
    /\ Len(analyzedArticlesMap) = 1
    /\ timers = 0

(* C24: when a scan ends by an error event or a broken connection, the page
   shows a terminal failure (an error message, loading cleared, the
   connection closed) and has discarded the items still pending: the pending
   list is empty. *)
C24_ErrorDiscardsPending ==
    (LastScanEnded /\ ended[scanNo] = "error") =>
        /\ error # "null"
        /\ ~loading
        /\ readyState[scanNo] = "closed"
        /\ eventSourceRef = 0
        /\ pendingArticles = <<>>

(* C25: a scan whose complete event was handled does not end with an error
   set, although the server closes the connection right after complete; a
   scan whose connection broke before complete ends with an error set; and a
   stop by the user sets no error. This is about the scan started last: the
   next scan resets the error. *)
C25_CleanFinishOrFailure ==
    LastScanEnded =>
        /\ ended[scanNo] = "complete" => error = "null"
        /\ ended[scanNo] = "error" => error # "null"
        /\ ended[scanNo] = "stopped" => error = "null"

\* a scan has completed, its post-processing is over, and a scan before it
\* ended with an error
C25_Witness ==
    /\ scanNo = 2
    /\ ended[1] = "error"
    /\ ended[2] = "complete"
    /\ post[2].at = "done"
    /\ error = "null"

\* the rows of the table scans that scan s wrote
RowsOf(s) == { k \in 1..Len(scans) : scans[k].scan = s }

\* saveScan has returned for scan s
SaveReturned(s) == post[s].at \in {"summarizing", "done"}

(* C26, as claimed: every scan that reached complete, once saveScan has
   returned, has exactly one record in the store, and a scan that was stopped
   or ended in an error or disconnect has none. *)
C26_OneRecordPerComplete ==
    \A s \in Scans :
        /\ (ended[s] = "complete" /\ SaveReturned(s)) => Cardinality(RowsOf(s)) = 1
        /\ ended[s] \in {"stopped", "error"} => RowsOf(s) = {}

(* C26, amended: the page calls saveScan exactly once for a scan that reached
   complete and never for a scan that was stopped or ended in an error or
   disconnect; the call appends one record when the store is configured and
   the insert succeeds, and none when the store is not configured or the
   insert fails. *)
C26_OneSavePerComplete ==
    \A s \in Scans :
        /\ ended[s] = "complete" <=> post[s].at # "idle"
        /\ SaveReturned(s) <=> saved[s] # ""
        /\ Cardinality(RowsOf(s)) = IF saved[s] = "inserted" THEN 1 ELSE 0
        /\ saved[s] = "inserted" => supabase
        /\ saved[s] = "skipped" => ~supabase

\* two scans have completed; the store took the record of the first and
\* refused the record of the second
C26_Witness ==
    /\ scanNo = 2
    /\ ended[1] = "complete"
    /\ ended[2] = "complete"
    /\ saved[1] = "inserted"
    /\ saved[2] = "failed"
    /\ Len(scans) = 1

\* this step is a continuation of the complete listener of scan s
PostStep(s) == post'[s] # post[s] /\ post[s].at # "idle"

(* C27: the post-processing that the complete listener of a scan started
   (saveScan, the summary request, clearing the progress text) does not write
   the summary or the progress text once a later scan has started. *)
C27_NoLateWrites ==
    [][ \A s \in Scans :
            (PostStep(s) /\ s < scanNo) =>
                (summary' = summary /\ progress' = progress) ]_vars

\* the scans whose EventSource holds a connection or is about to request one
LiveSources == { s \in Scans : readyState[s] \in {"connecting", "open"} }

(* C30: at any moment at most one event-stream connection is live, and no
   scan causes more than one run of the server: a scan that has ended, or
   that a later scan has replaced, has its connection closed, so its
   EventSource never requests the stream again. *)
C30_OneConnectionOneRun ==
    /\ Cardinality(LiveSources) <= 1
    /\ LiveSources \subseteq {eventSourceRef}
    /\ \A s \in Scans :
           /\ runs[s] <= 1
           /\ (ended[s] # "" \/ s < scanNo) => readyState[s] = "closed"

\* the first scan ended by an error or a broken connection, and the second
\* scan's connection is open on its own run and has delivered a result
C30_Witness ==
    /\ scanNo = 2
    /\ ended[1] = "error"
    /\ runs[1] = 1
    /\ Handled("analyzed") # {}
    /\ readyState[2] = "open"
    /\ runs[2] = 1

====
